---- MODULE Spec2Model ----
(***************************************************************************)
(* Engine abstraction and event-normalisation layer.                       *)
(*                                                                         *)
(* The module models one session object, either a BaseSession subclass     *)
(* (ai-runtime/base/base-session) or an IFlowSession (engines/iflow/       *)
(* session), together with the consumers that iterate the pull-sequences   *)
(* its run() returns, the external process and the IFlow event parser.     *)
(* The variable impl records which of the two classes the session is; it   *)
(* is chosen once, in Init.                                                *)
(***************************************************************************)
EXTENDS Integers, Sequences, FiniteSets, TLC

(***************************************************************************)
(* Bounds of the exploration.                                              *)
(***************************************************************************)
MaxRuns  == 2     \* run(task) calls made on the session
MaxLines == 2     \* raw lines fed to the sequence executeTask returns, per run
MaxOut   == 1     \* raw output lines the processes of an IFlowSession write
MaxEmit  == 3     \* events emitted on the emitter of a session
MaxFed   == 3     \* raw events fed to a parser
MaxSessions == 2  \* sessions constructed
MaxLog   == 4     \* initialize() and cleanup() calls made on an engine
MaxRegs  == 3     \* registerEngine calls made on the registry
MaxBoots == 2     \* bootstrapEngines calls made
MaxVars  == 2     \* variables given in a template context
MaxEntries == 2   \* context entries passed to the context services

(***************************************************************************)
(* JavaScript values are coded as strings; the two below stand for the     *)
(* values undefined and null.                                              *)
(***************************************************************************)
Undef == "<undefined>"
Null  == "<null>"

\* JavaScript falsiness, as used by the || fallbacks of the parser
Falsy(v) == v \in {Undef, Null, "", "0", "false"}

\* a || b
Or(a, b) == IF Falsy(a) THEN b ELSE a

\* event.f of a loosely typed raw event: undefined when the field is absent
Get(e, f) == IF f \in DOMAIN e THEN e[f] ELSE Undef

Last(s) == s[Len(s)]

\* readonly id of the session (generated once in the constructor)
id == "s1"

VARIABLES
    impl,           \* "base" or "iflow": the class of the session
    status,         \* _status: "idle", "running" or "disposed"
    isDisposed,     \* isDisposed flag
    gen,            \* BaseSession: the generator returned by the latest run()
    runCalls,       \* BaseSession: number of run() calls made
    toolCalls,      \* parser's ToolCallManager map: tool id -> ToolCallInfo
    process,        \* IFlowSession.process: 0 for null, else a process handle
    currentTaskId,  \* IFlowSession.currentTaskId: Null or a task id
    runs,           \* IFlowSession: one record per run() call (its closure)
    procs,          \* external processes: handle -> [run, killed, out]
    listeners,      \* the listeners attached to the session's EventEmitter
    hookCalls,      \* BaseSession: calls of the disposeResources hook
    state,          \* createEventIterable: its EventQueueState
    consumer,       \* createEventIterable: the generator of the iterable
    emitted,        \* events emitted since createEventIterable was called
    fed,            \* the raw events fed to the parser so far
    parsed,         \* the events the parser has returned so far
    twin,           \* a second parser instance: [toolCalls, parsed]
    engine,         \* an IFlowEngine: its fields and the calls made on it
    sessions,       \* the sessions constructed so far, in order
    registry,       \* the engine registry and its initializeAll batches
    rendering,      \* task templates: a template id, a context, the results
    selection,      \* TokenBudgetController: entries, budget and the result
    adjustment      \* PriorityManager: entries, query and the result

vars == <<impl, status, isDisposed, gen, runCalls, toolCalls,
          process, currentTaskId, runs, procs, listeners, hookCalls,
          state, consumer, emitted, fed, parsed, twin,
          engine, sessions, registry, rendering, selection, adjustment>>

baseVars   == <<gen, runCalls, toolCalls>>
iflowVars  == <<process, currentTaskId, runs, procs>>
queueVars  == <<state, consumer, emitted>>
parserVars == <<fed, parsed, twin>>
engineVars == <<engine, sessions, registry>>
serviceVars == <<rendering, selection, adjustment>>

(***************************************************************************)
(* Inputs.                                                                 *)
(***************************************************************************)
TaskIds == {"t1", "t2"}
Tasks   == { [id |-> "t1", prompt |-> "hi"], [id |-> "t2", prompt |-> ""] }

\* arguments of abort(taskId?): no argument, the empty string, or a task id
AbortArgs == {Undef, ""} \cup TaskIds

\* raw output lines of the external CLI (already decoded from JSON)
RawLines ==
    { [type |-> "start"],
      [type |-> "end"],
      [type |-> "error", error |-> "boom"],
      [type |-> "token", text |-> "Hel"] }

\* raw lines the process of an IFlowSession writes: a token and the end
StdoutLines == { [type |-> "token", text |-> "Hel"], [type |-> "end"] }

(***************************************************************************)
(* Canonical events (ai-runtime/event factories).                          *)
(***************************************************************************)
createSessionStartEvent(sessionId) ==
    [type |-> "session_start", sessionId |-> sessionId]

createSessionEndEvent(sessionId, reason) ==
    [type |-> "session_end", sessionId |-> sessionId, reason |-> reason]

createUserMessageEvent(content) ==
    [type |-> "user_message", content |-> content]

createAssistantMessageEvent(content, isPartial) ==
    [type |-> "assistant_message", content |-> content, isPartial |-> isPartial]

createToolCallStartEvent(name, args) ==
    [type |-> "tool_call_start", name |-> name, args |-> args]

createToolCallEndEvent(name, result, success) ==
    [type |-> "tool_call_end", name |-> name, result |-> result,
     success |-> success]

createProgressEvent(message, percent) ==
    [type |-> "progress", message |-> message, percent |-> percent]

createErrorEvent(message) ==
    [type |-> "error", error |-> message]

\* createDefaultCompletionChecker: the two terminal event types
createDefaultCompletionChecker(event) ==
    event.type = "session_end" \/ event.type = "error"

(***************************************************************************)
(* IFlowEventParser: the canonical events of one raw event.                *)
(***************************************************************************)
parseSessionEvent(event) ==
    IF event.type = "start"
    THEN <<createSessionStartEvent(Or(Get(event, "sessionId"), id))>>
    ELSE IF event.type = "end" \/ event.type = "complete"
    THEN <<createSessionEndEvent(Or(Get(event, "sessionId"), id), "completed")>>
    ELSE <<>>

parseMessageEvent(event) ==
    IF Get(event, "role") = "assistant"
    THEN <<createAssistantMessageEvent(Get(event, "content"), FALSE)>>
    ELSE IF Get(event, "role") = "user"
    THEN <<createUserMessageEvent(Get(event, "content"))>>
    ELSE <<>>

\* a token event read with ?? in place of ||: the first defined field
parseTokenEventIfDefined(event) ==
    createAssistantMessageEvent(
        IF Get(event, "text") # Undef THEN event.text
        ELSE IF Get(event, "delta") # Undef THEN event.delta
        ELSE "", TRUE)

parseTokenEvent(event) ==
    createAssistantMessageEvent(
        Or(Or(Get(event, "text"), Get(event, "delta")), ""), TRUE)

ToolName(event) == Or(Get(event, "name"), "unknown")
ToolArgs(event) == Or(Or(Get(event, "args"), Get(event, "input")), "{}")
ToolStarts(event) ==
    Falsy(Get(event, "status")) \/ Get(event, "status") = "start"

\* the tool-call ids crypto.randomUUID() may return
ToolIds == {"u1", "u2", "u3", "u4"}

\* ToolCallManager.startToolCall on the map calls: the entry is set, in
\* status running, whether or not the id is already in the map
startToolCall(calls, toolName, toolId, input) ==
    [t \in DOMAIN calls \cup {toolId} |->
        IF t = toolId
        THEN [id |-> toolId, name |-> toolName, args |-> input,
              status |-> "running", result |-> Undef]
        ELSE calls[t]]

\* ToolCallManager.endToolCall: an entry of the map gets its final status
\* and its result, an unknown id is ignored
endToolCall(calls, toolId, output, success) ==
    IF toolId \in DOMAIN calls
    THEN [calls EXCEPT ![toolId].status =
                           IF success THEN "completed" ELSE "failed",
                       ![toolId].result = output]
    ELSE calls

\* ToolCallManager.removeToolCall
removeToolCall(calls, toolId) ==
    [t \in DOMAIN calls \ {toolId} |-> calls[t]]

\* the events of a tool start that carry the generated id in their text
ToolStartEventsWithId(event, toolId) ==
    <<createProgressEvent("calling tool: " \o toolId, Undef),
      createToolCallStartEvent(ToolName(event), ToolArgs(event))>>

\* the events parseToolEvent returns for a tool start: the generated toolId
\* only goes to startToolCall
ToolStartEvents(event, toolId) ==
    <<createProgressEvent("calling tool: " \o ToolName(event), Undef),
      createToolCallStartEvent(ToolName(event), ToolArgs(event))>>

parseToolEvent(event, toolId) ==
    IF ToolStarts(event)
    THEN ToolStartEvents(event, toolId)
    ELSE IF Get(event, "status") = "end"
    THEN <<createProgressEvent("tool done: " \o ToolName(event), Undef),
           createToolCallEndEvent(ToolName(event),
               Or(Get(event, "result"), Get(event, "output")), TRUE)>>
    ELSE IF Get(event, "status") = "error"
    THEN <<createProgressEvent("tool failed: " \o ToolName(event), Undef),
           createToolCallEndEvent(ToolName(event),
               Or(Get(event, "result"), Get(event, "output")), FALSE)>>
    ELSE <<>>

parseProgressEvent(event) ==
    createProgressEvent(Get(event, "message"), Get(event, "percent"))

parseErrorEvent(event) ==
    createErrorEvent(
        Or(Or(Get(event, "error"), Get(event, "message")), "unknown error"))

\* an unknown type reported as an error event
parseUnknownAsError(event) == <<createErrorEvent("unknown event type")>>

\* the default branch of parse: a warning is logged, nothing is returned
parseUnknown(event) == <<>>

\* parse(event): the events returned; toolId is the id randomUUID() returns
\* if the event starts a tool call
parse(event, toolId) ==
    CASE event.type = "start"                    -> parseSessionEvent(event)
      [] event.type \in {"end", "complete"}      -> parseSessionEvent(event)
      [] event.type = "message"                  -> parseMessageEvent(event)
      [] event.type \in {"token", "delta"}       -> <<parseTokenEvent(event)>>
      [] event.type \in {"tool", "tool_call"}    ->
                                         parseToolEvent(event, toolId)
      [] event.type = "progress"                 -> <<parseProgressEvent(event)>>
      [] event.type = "error"                    -> <<parseErrorEvent(event)>>
      [] OTHER                                   -> parseUnknown(event)

\* a parse that does not register the tool call
parseToolCallsNone(calls, event, toolId) == calls

\* parse(event): the tool calls of the parser's ToolCallManager afterwards
parseToolCalls(calls, event, toolId) ==
    IF event.type \in {"tool", "tool_call"} /\ ToolStarts(event)
    THEN startToolCall(calls, ToolName(event), toolId, ToolArgs(event))
    ELSE calls

\* convertEventsToAIEvents: the concatenated results of parsing each event
\* with a fresh parser, whatever ids it generates
RECURSIVE convertEventsToAIEvents(_)
convertEventsToAIEvents(events) ==
    IF events = <<>> THEN <<>>
    ELSE parse(Head(events), CHOOSE toolId \in ToolIds : TRUE)
             \o convertEventsToAIEvents(Tail(events))


\* raw lines written so far by all the external processes
RECURSIVE OutLines(_)
OutLines(hs) ==
    IF hs = {} THEN 0
    ELSE LET h == CHOOSE x \in hs : TRUE
         IN  Len(procs[h].out) + OutLines(hs \ {h})

(***************************************************************************)
(* BaseSession.                                                            *)
(*                                                                         *)
(* run(task) is an async generator: calling it only creates the generator  *)
(* object, the body runs when the consumer pulls.  gen is the generator of *)
(* the latest run() call: the position of its body (pc), the state of the  *)
(* sequence executeTask returned (inner), the raw lines the process has    *)
(* written for it (lines), how many events of that sequence the for-await  *)
(* loop has taken, and the events yielded to the consumer.  The caller     *)
(* makes the next run() call once the previous pull-sequence has ended.    *)
(***************************************************************************)
NoTask == [id |-> Null, prompt |-> Undef]

NewGen(task, pc) ==
    [task |-> task, pc |-> pc, inner |-> "none", lines |-> <<>>,
     taken |-> 0, yielded |-> <<>>]

\* positions of a generator that has ended: ran to its end, was ended by the
\* consumer's return(), or threw at its first pull
Ended == {"done", "returned", "rejected"}

\* the sequence executeTask produces: the parser's events for the raw lines
Produced(g) == convertEventsToAIEvents(g.lines)

\* the error event synthesised by the catch clause of run
CaughtError(message) == [type |-> "error", error |-> message]

\* a run(task) that starts its body at the call, as a plain async function
\* would
BaseRunEager(task) ==
    /\ impl = "base"
    /\ runCalls < MaxRuns
    /\ gen.pc \in Ended \cup {"none"}
    /\ gen' = NewGen(task, "created")
    /\ runCalls' = runCalls + 1
    /\ status' = IF isDisposed THEN status ELSE "running"
    /\ UNCHANGED <<impl, isDisposed, toolCalls, iflowVars>>
    /\ UNCHANGED <<listeners, hookCalls, queueVars, parserVars>>
    /\ UNCHANGED engineVars
    /\ UNCHANGED serviceVars

\* run(task): creates the generator, the body has not started
BaseRun(task) ==
    /\ impl = "base"
    /\ runCalls < MaxRuns
    /\ gen.pc \in Ended \cup {"none"}
    /\ gen' = NewGen(task, "created")
    /\ runCalls' = runCalls + 1
    /\ UNCHANGED <<impl, status, isDisposed, toolCalls, iflowVars>>
    /\ UNCHANGED <<listeners, hookCalls, queueVars, parserVars>>
    /\ UNCHANGED engineVars
    /\ UNCHANGED serviceVars

\* const eventIterable = await this.executeTask(task), then the first
\* inner pull of the for-await loop; executeTask may throw
ExecuteTask(g, ok) ==
    IF ok
    THEN [g EXCEPT !.inner = "open", !.pc = "awaitInner"]
    ELSE [g EXCEPT !.pc = "atError",
                   !.yielded = Append(@, CaughtError("executeTask failed"))]

\* the finally clause of run
RunFinally == status' = "idle"

\* a for-await loop of run that never breaks
NeverBreaks(event) == FALSE

\* the break of the for-await loop of run: after yielding a terminal event
BreaksAfter(event) == event.type = "session_end" \/ event.type = "error"

\* the consumer pulls the next event: the body runs to its next yield, to
\* its next await on the inner sequence, or to its end
BasePull ==
    /\ impl = "base"
    /\ \/ /\ gen.pc = "created"
          /\ isDisposed
          /\ gen' = [gen EXCEPT !.pc = "rejected"]
          /\ UNCHANGED status
       \/ /\ gen.pc = "created"
          /\ ~isDisposed
          /\ status' = "running"
          /\ gen' = [gen EXCEPT !.pc = "atStart",
                 !.yielded = Append(@, [type |-> "session_start",
                                        sessionId |-> id])]
       \/ /\ gen.pc = "atStart"
          /\ ~Falsy(gen.task.prompt)
          /\ gen' = [gen EXCEPT !.pc = "atUser",
                 !.yielded = Append(@, [type |-> "user_message",
                                        content |-> gen.task.prompt,
                                        files |-> Undef])]
          /\ UNCHANGED status
       \/ /\ \/ gen.pc = "atStart" /\ Falsy(gen.task.prompt)
             \/ gen.pc = "atUser"
          /\ \E ok \in BOOLEAN : gen' = ExecuteTask(gen, ok)
          /\ UNCHANGED status
       \/ /\ gen.pc = "atEvent"
          /\ BreaksAfter(Last(gen.yielded))
          /\ gen' = [gen EXCEPT !.pc = "done",
                 !.inner = IF @ = "open" THEN "closed" ELSE @]
          /\ RunFinally
       \/ /\ gen.pc = "atEvent"
          /\ ~BreaksAfter(Last(gen.yielded))
          /\ gen' = [gen EXCEPT !.pc = "awaitInner"]
          /\ UNCHANGED status
       \/ /\ gen.pc = "atError"
          /\ gen' = [gen EXCEPT !.pc = "done"]
          /\ RunFinally
    /\ UNCHANGED <<impl, isDisposed, toolCalls, runCalls, iflowVars>>
    /\ UNCHANGED <<listeners, hookCalls, queueVars, parserVars>>
    /\ UNCHANGED engineVars
    /\ UNCHANGED serviceVars

\* the inner sequence answers the pending pull of the for-await loop
BaseDeliver ==
    /\ impl = "base"
    /\ gen.pc = "awaitInner"
    /\ IF gen.taken < Len(Produced(gen))
       THEN /\ gen' = [gen EXCEPT !.pc = "atEvent",
                   !.taken = @ + 1,
                   !.yielded = Append(@, Produced(gen)[gen.taken + 1])]
            /\ UNCHANGED status
       ELSE \/ /\ gen.inner = "ended"
               /\ gen' = [gen EXCEPT !.pc = "done"]
               /\ RunFinally
            \/ /\ gen.inner = "failed"
               /\ gen' = [gen EXCEPT !.pc = "atError",
                      !.yielded = Append(@, CaughtError("stream failed"))]
               /\ UNCHANGED status
    /\ UNCHANGED <<impl, isDisposed, toolCalls, runCalls, iflowVars>>
    /\ UNCHANGED <<listeners, hookCalls, queueVars, parserVars>>
    /\ UNCHANGED engineVars
    /\ UNCHANGED serviceVars

\* the external process writes a raw line, the parser turns it into events
\* of the sequence executeTask returned
BaseEmit(line) ==
    /\ impl = "base"
    /\ gen.inner = "open"
    /\ Len(gen.lines) < MaxLines
    /\ gen' = [gen EXCEPT !.lines = Append(@, line)]
    /\ UNCHANGED <<impl, status, isDisposed, toolCalls, runCalls,
                   iflowVars>>
    /\ UNCHANGED <<listeners, hookCalls, queueVars, parserVars>>
    /\ UNCHANGED engineVars
    /\ UNCHANGED serviceVars

\* the sequence executeTask returned ends (ok) or throws (~ok) after the
\* events it has produced so far
BaseStreamEnd(ok) ==
    /\ impl = "base"
    /\ gen.inner = "open"
    /\ gen' = [gen EXCEPT !.inner = IF ok THEN "ended" ELSE "failed"]
    /\ UNCHANGED <<impl, status, isDisposed, toolCalls, runCalls,
                   iflowVars>>
    /\ UNCHANGED <<listeners, hookCalls, queueVars, parserVars>>
    /\ UNCHANGED engineVars
    /\ UNCHANGED serviceVars

\* the consumer stops iterating (return() on the generator): a body that
\* has not started just ends, a suspended one runs its finally clause
BaseReturn ==
    /\ impl = "base"
    /\ \/ /\ gen.pc = "created"
          /\ gen' = [gen EXCEPT !.pc = "returned"]
          /\ UNCHANGED status
       \/ /\ gen.pc \in {"atStart", "atUser", "atEvent", "atError"}
          /\ gen' = [gen EXCEPT !.pc = "returned",
                 !.inner = IF @ = "open" THEN "closed" ELSE @]
          /\ RunFinally
    /\ UNCHANGED <<impl, isDisposed, toolCalls, runCalls, iflowVars>>
    /\ UNCHANGED <<listeners, hookCalls, queueVars, parserVars>>
    /\ UNCHANGED engineVars
    /\ UNCHANGED serviceVars

\* abort(taskId?): the abortTask hook of the subclass, then _status = idle
BaseAbort(taskId) ==
    /\ impl = "base"
    /\ status' = "idle"
    /\ UNCHANGED <<impl, isDisposed, baseVars, iflowVars>>
    /\ UNCHANGED <<listeners, hookCalls, queueVars, parserVars>>
    /\ UNCHANGED engineVars
    /\ UNCHANGED serviceVars

\* dispose() without the isDisposed check
BaseDisposeUnchecked ==
    /\ impl = "base"
    /\ isDisposed' = TRUE
    /\ status' = "disposed"
    /\ hookCalls' = hookCalls + 1
    /\ listeners' = {}
    /\ UNCHANGED <<impl, baseVars, iflowVars, queueVars, parserVars>>
    /\ UNCHANGED engineVars
    /\ UNCHANGED serviceVars

\* dispose(): disposeResources() is the hook of the subclass, then
\* eventEmitter.removeAllListeners()
BaseDispose ==
    /\ impl = "base"
    /\ IF isDisposed
       THEN UNCHANGED <<isDisposed, status, hookCalls, listeners>>
       ELSE /\ isDisposed' = TRUE
            /\ status' = "disposed"
            /\ hookCalls' = hookCalls + 1
            /\ listeners' = {}
    /\ UNCHANGED <<impl, baseVars, iflowVars, queueVars, parserVars>>
    /\ UNCHANGED engineVars
    /\ UNCHANGED serviceVars

(***************************************************************************)
(* IFlowSession.                                                           *)
(*                                                                         *)
(* run(task) is an ordinary method: it checks isDisposed, sets the status  *)
(* and the current task id, starts the process asynchronously and returns  *)
(* an iterable over the variables of its closure (eventQueue,              *)
(* eventResolver, isComplete, completionError).  A run record holds that   *)
(* closure, the state of the startIFlowProcess promise (start) and the     *)
(* position of the consumer's iterator (pc).  A call that throws because   *)
(* the session is disposed is recorded with pc = "rejected".               *)
(***************************************************************************)
NewRun(task) ==
    [task |-> task, start |-> "pending", eventQueue |-> <<>>,
     eventResolver |-> FALSE, isComplete |-> FALSE,
     completionError |-> FALSE, pc |-> "created", yielded |-> <<>>]

RejectedRun(task) ==
    [NewRun(task) EXCEPT !.start = "none", !.pc = "rejected"]

\* run(task) without the isDisposed check
IFlowRunUnchecked(task) ==
    /\ impl = "iflow"
    /\ Len(runs) < MaxRuns
    /\ status' = "running"
    /\ currentTaskId' = task.id
    /\ runs' = Append(runs, NewRun(task))
    /\ UNCHANGED <<impl, isDisposed, baseVars, process, procs>>
    /\ UNCHANGED <<listeners, hookCalls, queueVars, parserVars>>
    /\ UNCHANGED engineVars
    /\ UNCHANGED serviceVars

\* run(task)
IFlowRun(task) ==
    /\ impl = "iflow"
    /\ Len(runs) < MaxRuns
    /\ IF isDisposed
       THEN /\ runs' = Append(runs, RejectedRun(task))
            /\ UNCHANGED <<status, currentTaskId>>
       ELSE /\ status' = "running"
            /\ currentTaskId' = task.id
            /\ runs' = Append(runs, NewRun(task))
    /\ UNCHANGED <<impl, isDisposed, baseVars, process, procs>>
    /\ UNCHANGED <<listeners, hookCalls, queueVars, parserVars>>
    /\ UNCHANGED engineVars
    /\ UNCHANGED serviceVars

\* startIFlowProcess(task).then(...): the process has started, its handle
\* is stored; no handler is attached to its output
IFlowStarted(r) ==
    /\ impl = "iflow"
    /\ r \in 1..Len(runs)
    /\ runs[r].start = "pending"
    /\ runs' = [runs EXCEPT ![r].start = "resolved"]
    /\ procs' = [h \in DOMAIN procs \cup {r} |->
                    IF h = r THEN [killed |-> FALSE, out |-> <<>>]
                    ELSE procs[h]]
    /\ process' = r
    /\ UNCHANGED <<impl, status, isDisposed, baseVars,
                   currentTaskId>>
    /\ UNCHANGED <<listeners, hookCalls, queueVars, parserVars>>
    /\ UNCHANGED engineVars
    /\ UNCHANGED serviceVars

\* startIFlowProcess(task).catch(...): the start failed
IFlowStartFailed(r) ==
    /\ impl = "iflow"
    /\ r \in 1..Len(runs)
    /\ runs[r].start = "pending"
    /\ runs' = [runs EXCEPT ![r].start = "rejected",
                            ![r].completionError = TRUE,
                            ![r].isComplete = TRUE,
                            ![r].pc = IF runs[r].eventResolver /\ @ = "waiting"
                                      THEN "woken" ELSE @]
    /\ UNCHANGED <<impl, status, isDisposed, baseVars, process,
                   currentTaskId, procs>>
    /\ UNCHANGED <<listeners, hookCalls, queueVars, parserVars>>
    /\ UNCHANGED engineVars
    /\ UNCHANGED serviceVars

\* the body of the iterator from the head of its first loop to the next
\* yield, await, throw or end
IterLoop(run) ==
    IF ~run.isComplete /\ ~run.completionError
    THEN IF Len(run.eventQueue) > 0
         THEN [run EXCEPT !.pc = "atEvent",
                          !.yielded = Append(@, Head(run.eventQueue)),
                          !.eventQueue = Tail(@)]
         ELSE [run EXCEPT !.pc = "waiting", !.eventResolver = TRUE]
    ELSE IF run.completionError
    THEN [run EXCEPT !.pc = "threw"]
    ELSE IF Len(run.eventQueue) > 0
    THEN [run EXCEPT !.pc = "atDrain",
                     !.yielded = Append(@, Head(run.eventQueue)),
                     !.eventQueue = Tail(@)]
    ELSE [run EXCEPT !.pc = "done"]

\* the second loop of the iterator: the remaining events
IterDrain(run) ==
    IF Len(run.eventQueue) > 0
    THEN [run EXCEPT !.yielded = Append(@, Head(run.eventQueue)),
                     !.eventQueue = Tail(@)]
    ELSE [run EXCEPT !.pc = "done"]

\* the consumer pulls the next event
IFlowPull(r) ==
    /\ impl = "iflow"
    /\ r \in 1..Len(runs)
    /\ \/ /\ runs[r].pc \in {"created", "atEvent"}
          /\ runs' = [runs EXCEPT ![r] = IterLoop(runs[r])]
       \/ /\ runs[r].pc = "atDrain"
          /\ runs' = [runs EXCEPT ![r] = IterDrain(runs[r])]
    /\ UNCHANGED <<impl, status, isDisposed, baseVars, process,
                   currentTaskId, procs>>
    /\ UNCHANGED <<listeners, hookCalls, queueVars, parserVars>>
    /\ UNCHANGED engineVars
    /\ UNCHANGED serviceVars

\* the iterator resumes after eventResolver was called
IFlowResume(r) ==
    /\ impl = "iflow"
    /\ r \in 1..Len(runs)
    /\ runs[r].pc = "woken"
    /\ runs' = [runs EXCEPT ![r] = IterLoop(runs[r])]
    /\ UNCHANGED <<impl, status, isDisposed, baseVars, process,
                   currentTaskId, procs>>
    /\ UNCHANGED <<listeners, hookCalls, queueVars, parserVars>>
    /\ UNCHANGED engineVars
    /\ UNCHANGED serviceVars

\* the consumer stops iterating (return() on an iterator that is not
\* blocked in its await)
IFlowReturn(r) ==
    /\ impl = "iflow"
    /\ r \in 1..Len(runs)
    /\ runs[r].pc \in {"created", "atEvent", "atDrain"}
    /\ runs' = [runs EXCEPT ![r].pc = "returned"]
    /\ UNCHANGED <<impl, status, isDisposed, baseVars, process,
                   currentTaskId, procs>>
    /\ UNCHANGED <<listeners, hookCalls, queueVars, parserVars>>
    /\ UNCHANGED engineVars
    /\ UNCHANGED serviceVars

\* process.kill() followed by this.process = null
KillProcess ==
    IF process # 0
    THEN /\ procs' = [procs EXCEPT ![process].killed = TRUE]
         /\ process' = 0
    ELSE UNCHANGED <<procs, process>>

\* abort(taskId?)
IFlowAbort(taskId) ==
    /\ impl = "iflow"
    /\ IF ~Falsy(taskId) /\ currentTaskId # taskId
       THEN UNCHANGED <<process, procs, currentTaskId, status>>
       ELSE /\ KillProcess
            /\ currentTaskId' = Null
            /\ status' = "idle"
    /\ UNCHANGED <<impl, isDisposed, baseVars, runs>>
    /\ UNCHANGED <<listeners, hookCalls, queueVars, parserVars>>
    /\ UNCHANGED engineVars
    /\ UNCHANGED serviceVars

\* dispose(): kills the process, parser.reset() clears the tool calls,
\* eventEmitter.removeAllListeners()
IFlowDispose ==
    /\ impl = "iflow"
    /\ IF isDisposed
       THEN UNCHANGED <<isDisposed, status, process, procs, toolCalls,
                        currentTaskId, listeners>>
       ELSE /\ isDisposed' = TRUE
            /\ status' = "disposed"
            /\ KillProcess
            /\ toolCalls' = <<>>
            /\ listeners' = {}
            /\ currentTaskId' = Null
    /\ UNCHANGED <<impl, gen, runCalls, runs, hookCalls, queueVars,
                   parserVars>>
    /\ UNCHANGED engineVars
    /\ UNCHANGED serviceVars

\* a live external process writes a raw line to its output
ProcessWrites(h, line) ==
    /\ impl = "iflow"
    /\ h \in DOMAIN procs
    /\ ~procs[h].killed
    /\ OutLines(DOMAIN procs) < MaxOut
    /\ procs' = [procs EXCEPT ![h].out = Append(@, line)]
    /\ UNCHANGED <<impl, status, isDisposed, baseVars, process,
                   currentTaskId, runs>>
    /\ UNCHANGED <<listeners, hookCalls, queueVars, parserVars>>
    /\ UNCHANGED engineVars
    /\ UNCHANGED serviceVars

(***************************************************************************)
(* createEventIterable(eventEmitter, onCompleteCondition).                 *)
(***************************************************************************)
\* the EventQueueState of a call; resolve is TRUE when state.resolve holds
\* the resolver of a promise (not null)
NewState == [events |-> <<>>, isComplete |-> FALSE, resolve |-> FALSE]

\* before createEventIterable is called
NoState == NewState

\* the generator of the iterable: its position and the events it yielded
NoConsumer == [pc |-> "none", yielded |-> <<>>]

\* a freshly constructed IFlowEventParser: no tool calls, nothing returned
NewParser == [toolCalls |-> <<>>, parsed |-> <<>>]

\* the events a session emits on its EventEmitter
EmitEvents ==
    { createAssistantMessageEvent("Hel", TRUE),
      createProgressEvent("working", Undef),
      createSessionEndEvent(id, "completed"),
      createErrorEvent("boom") }

\* executeTask calls createEventIterable(this.eventEmitter, checker): the
\* listener is registered at once, the generator is created by the first
\* pull of the for-await loop of run
CreateEventIterable ==
    /\ impl = "base"
    /\ ~isDisposed
    /\ consumer.pc = "none"
    /\ listeners' = listeners \cup {"queue"}
    /\ state' = NewState
    /\ consumer' = [pc |-> "created", yielded |-> <<>>]
    /\ emitted' = <<>>
    /\ UNCHANGED <<impl, status, isDisposed, baseVars, iflowVars,
                   hookCalls, parserVars>>
    /\ UNCHANGED engineVars
    /\ UNCHANGED serviceVars

\* executeTask throws after it called createEventIterable (the process
\* could not be launched): run never iterates the iterable
ExecuteTaskThrows ==
    /\ impl = "base"
    /\ consumer.pc = "created"
    /\ consumer' = [consumer EXCEPT !.pc = "dropped"]
    /\ UNCHANGED <<impl, status, isDisposed, baseVars, iflowVars,
                   listeners, hookCalls, state, emitted, parserVars>>
    /\ UNCHANGED engineVars
    /\ UNCHANGED serviceVars

\* the listener of createEventIterable: push, and on an event that
\* satisfies the completion condition set isComplete and call state.resolve
Listener(event) ==
    IF createDefaultCompletionChecker(event)
    THEN /\ state' = [state EXCEPT !.events = Append(@, event),
                                   !.isComplete = TRUE,
                                   !.resolve = FALSE]
         /\ consumer' = [consumer EXCEPT !.pc =
                IF state.resolve /\ @ = "waiting" THEN "woken" ELSE @]
    ELSE /\ state' = [state EXCEPT !.events = Append(@, event)]
         /\ UNCHANGED consumer

\* eventEmitter.emit(event): every attached listener is called.  A
\* generator the timer has woken resumes in the microtask that follows the
\* timer callback, before any other code can emit
Emit(event) ==
    /\ impl = "base"
    /\ consumer.pc # "none"
    /\ ~(consumer.pc = "woken" /\ ~state.isComplete)
    /\ Len(emitted) < MaxEmit
    /\ emitted' = Append(emitted, event)
    /\ IF "queue" \in listeners
       THEN Listener(event)
       ELSE UNCHANGED <<state, consumer>>
    /\ UNCHANGED <<impl, status, isDisposed, baseVars, iflowVars,
                   listeners, hookCalls, parserVars>>
    /\ UNCHANGED engineVars
    /\ UNCHANGED serviceVars

\* a queue that hands out its newest event first
QueuePop(events) ==
    [value |-> Last(events), rest |-> SubSeq(events, 1, Len(events) - 1)]

\* state.events.shift(): the oldest event and the remaining queue
QueueShift(events) == [value |-> Head(events), rest |-> Tail(events)]

\* the body of the generator from the head of its loops to the next yield
\* or await, or through the finally clause (unlisten) to its end
IterableLoop ==
    IF state.events # <<>>
    THEN /\ consumer' = [consumer EXCEPT !.pc = "atYield",
                !.yielded = Append(@, QueueShift(state.events).value)]
         /\ state' = [state EXCEPT !.events = QueueShift(@).rest]
         /\ UNCHANGED listeners
    ELSE IF ~state.isComplete
    THEN /\ consumer' = [consumer EXCEPT !.pc = "waiting"]
         /\ state' = [state EXCEPT !.resolve = TRUE]
         /\ UNCHANGED listeners
    ELSE /\ consumer' = [consumer EXCEPT !.pc = "done"]
         /\ listeners' = listeners \ {"queue"}
         /\ UNCHANGED state

\* the consumer (the for-await loop of run) pulls the next event
QueuePull ==
    /\ impl = "base"
    /\ consumer.pc \in {"created", "atYield"}
    /\ IterableLoop
    /\ UNCHANGED <<impl, status, isDisposed, baseVars, iflowVars,
                   hookCalls, emitted, parserVars>>
    /\ UNCHANGED engineVars
    /\ UNCHANGED serviceVars

\* the 100 ms timer of the pending promise fires: if (!state.isComplete) r()
QueueTimer ==
    /\ impl = "base"
    /\ consumer.pc = "waiting"
    /\ ~state.isComplete
    /\ consumer' = [consumer EXCEPT !.pc = "woken"]
    /\ UNCHANGED <<impl, status, isDisposed, baseVars, iflowVars,
                   listeners, hookCalls, state, emitted, parserVars>>
    /\ UNCHANGED engineVars
    /\ UNCHANGED serviceVars

\* the generator resumes after its promise was resolved
QueueResume ==
    /\ impl = "base"
    /\ consumer.pc = "woken"
    /\ IterableLoop
    /\ UNCHANGED <<impl, status, isDisposed, baseVars, iflowVars,
                   hookCalls, emitted, parserVars>>
    /\ UNCHANGED engineVars
    /\ UNCHANGED serviceVars

\* the consumer ends the iteration at a yield (the break of the for-await
\* loop of run, or return() on run): the finally clause calls unlisten
QueueReturn ==
    /\ impl = "base"
    /\ consumer.pc = "atYield"
    /\ consumer' = [consumer EXCEPT !.pc = "returned"]
    /\ listeners' = listeners \ {"queue"}
    /\ UNCHANGED <<impl, status, isDisposed, baseVars, iflowVars,
                   hookCalls, state, emitted, parserVars>>
    /\ UNCHANGED engineVars
    /\ UNCHANGED serviceVars

(***************************************************************************)
(* IFlowEngine.  The record engine holds the fields of one engine          *)
(* (capabilities, config, isInitialized), the initialize() calls whose     *)
(* availability probe has not settled (pending), and what is needed to     *)
(* tell what its methods did: ops counts the calls of initialize and       *)
(* cleanup made so far, last describes the latest call or return,          *)
(* returnedTrue tells whether an initialize() has returned true since the  *)
(* latest cleanup(), and atOnce counts the initialize() calls that         *)
(* returned without a probe.  sessions holds one record per constructed    *)
(* session: its id, its class and the configuration its constructor was    *)
(* given.                                                                  *)
(***************************************************************************)
SessionIds == {"s1", "s2", "s3"}

capabilities ==
    [supportedTaskKinds |-> {"chat", "refactor", "explain", "generate",
                             "fix-bug"},
     supportsStreaming |-> TRUE,
     supportsConcurrentSessions |-> TRUE,
     supportsTaskAbort |-> TRUE,
     maxConcurrentSessions |-> 3,
     description |-> "IFlow AI CLI",
     version |-> "1.0.0"]

\* what a call did: ev is "initialize", "return" (of a pending initialize)
\* or "cleanup"; probes tells whether the call started a probe, probe is
\* the outcome of the probe, result the value returned
Did(ev, probes, probe, result) ==
    [ev |-> ev, probes |-> probes, probe |-> probe, result |-> result]

NewEngine ==
    [capabilities |-> capabilities, config |-> <<>>, isInitialized |-> FALSE,
     pending |-> {}, ops |-> 0, returnedTrue |-> FALSE, atOnce |-> 0,
     last |-> Did("none", FALSE, "none", "none")]

\* the partial configurations passed to updateConfig
ConfigUpdates ==
    { [defaultModel |-> "m1"],
      [defaultModel |-> "m2", apiKey |-> "k"] }

\* { ...config, ...update }
Spread(config, update) ==
    [f \in DOMAIN config \cup DOMAIN update |->
        IF f \in DOMAIN update THEN update[f] ELSE config[f]]

\* the outcomes of checkIFlowInstalled()
ProbeOutcomes == {"available", "unavailable", "throws"}

\* isAvailable(): a probe that throws is reported as not available
isAvailable(outcome) ==
    IF outcome = "throws" THEN FALSE ELSE outcome = "available"

\* the ids of the sessions constructed so far
UsedIds == {sessions[i].id : i \in DOMAIN sessions}

\* an updateConfig that also rewrites the configuration of the sessions
\* already created
UpdateConfigShared(config) ==
    /\ engine' = [engine EXCEPT !.config = Spread(@, config)]
    /\ sessions' =
         [i \in DOMAIN sessions |->
            IF sessions[i].kind = "iflow"
            THEN [sessions[i] EXCEPT
                    !.config.model = Get(engine'.config, "defaultModel")]
            ELSE sessions[i]]
    /\ UNCHANGED <<impl, status, isDisposed, baseVars, iflowVars, listeners,
                   hookCalls, queueVars, parserVars, registry>>
    /\ UNCHANGED serviceVars

\* updateConfig(config)
UpdateConfig(config) ==
    /\ engine' = [engine EXCEPT !.config = Spread(@, config)]
    /\ UNCHANGED <<impl, status, isDisposed, baseVars, iflowVars, listeners,
                   hookCalls, queueVars, parserVars, sessions, registry>>
    /\ UNCHANGED serviceVars

\* createSession(): new IFlowSession(sessionConfig, {...}); sessionId is
\* the id crypto.randomUUID() returns
CreateSession(sessionId) ==
    /\ Len(sessions) < MaxSessions
    /\ sessionId \notin UsedIds
    /\ sessions' = Append(sessions,
         [id |-> sessionId, kind |-> "iflow",
          config |-> [executablePath |-> Get(engine.config, "executablePath"),
                      model |-> Get(engine.config, "defaultModel"),
                      apiKey |-> Get(engine.config, "apiKey"),
                      apiBase |-> Get(engine.config, "apiBase"),
                      extraArgs |-> Get(engine.config, "extraArgs")]])
    /\ UNCHANGED <<impl, status, isDisposed, baseVars, iflowVars, listeners,
                   hookCalls, queueVars, parserVars, engine, registry>>
    /\ UNCHANGED serviceVars

\* new of a subclass of BaseSession with options { id }: the id is the
\* one the caller passes
ConstructBaseSession(sessionId) ==
    /\ Len(sessions) < MaxSessions
    /\ sessions' = Append(sessions,
         [id |-> sessionId, kind |-> "base", config |-> <<>>])
    /\ UNCHANGED <<impl, status, isDisposed, baseVars, iflowVars, listeners,
                   hookCalls, queueVars, parserVars, engine, registry>>
    /\ UNCHANGED serviceVars

\* an initialize() that does not look at isInitialized
InitializeAlwaysProbes ==
    /\ engine.ops < MaxLog
    /\ engine' = [engine EXCEPT
            !.ops = @ + 1,
            !.pending = @ \cup {engine.ops + 1},
            !.last = Did("initialize", TRUE, "none", "none")]
    /\ UNCHANGED <<impl, status, isDisposed, baseVars, iflowVars, listeners,
                   hookCalls, queueVars, parserVars, sessions, registry>>
    /\ UNCHANGED serviceVars

\* initialize() up to its await: returns true at once when isInitialized,
\* else calls isAvailable()
Initialize ==
    /\ engine.ops < MaxLog
    /\ IF engine.isInitialized
       THEN engine' = [engine EXCEPT
                !.ops = @ + 1,
                !.returnedTrue = TRUE,
                !.atOnce = @ + 1,
                !.last = Did("initialize", FALSE, "none", "true")]
       ELSE engine' = [engine EXCEPT
                !.ops = @ + 1,
                !.pending = @ \cup {engine.ops + 1},
                !.last = Did("initialize", TRUE, "none", "none")]
    /\ UNCHANGED <<impl, status, isDisposed, baseVars, iflowVars, listeners,
                   hookCalls, queueVars, parserVars, sessions, registry>>
    /\ UNCHANGED serviceVars

\* the probe of a pending initialize() settles and initialize returns
ProbeSettles(call, outcome) ==
    /\ call \in engine.pending
    /\ IF isAvailable(outcome)
       THEN engine' = [engine EXCEPT
                !.isInitialized = TRUE,
                !.pending = @ \ {call},
                !.returnedTrue = TRUE,
                !.last = Did("return", TRUE, outcome, "true")]
       ELSE engine' = [engine EXCEPT
                !.pending = @ \ {call},
                !.last = Did("return", TRUE, outcome, "false")]
    /\ UNCHANGED <<impl, status, isDisposed, baseVars, iflowVars, listeners,
                   hookCalls, queueVars, parserVars, sessions, registry>>
    /\ UNCHANGED serviceVars

\* cleanup()
Cleanup ==
    /\ engine.ops < MaxLog
    /\ engine' = [engine EXCEPT
            !.ops = @ + 1,
            !.isInitialized = FALSE,
            !.returnedTrue = FALSE,
            !.last = Did("cleanup", FALSE, "none", "none")]
    /\ UNCHANGED <<impl, status, isDisposed, baseVars, iflowVars, listeners,
                   hookCalls, queueVars, parserVars, sessions, registry>>
    /\ UNCHANGED serviceVars

EngineNext ==
    \/ \E config \in ConfigUpdates : UpdateConfig(config)
    \/ \E sessionId \in SessionIds : CreateSession(sessionId)
    \/ Initialize
    \/ \E call \in 1..MaxLog, outcome \in ProbeOutcomes :
           ProbeSettles(call, outcome)
    \/ Cleanup

SessionsNext ==
    \/ \E config \in ConfigUpdates : UpdateConfig(config)
    \/ \E sessionId \in SessionIds : CreateSession(sessionId)
    \/ \E sessionId \in SessionIds : ConstructBaseSession(sessionId)

(***************************************************************************)
(* The engine registry and its callers bootstrapEngines and                *)
(* registerEngineLazy.  entries maps the id of each registered engine to   *)
(* its default status and to the instance registered (instances are        *)
(* numbered by the registerEngine call that registered them); regs counts  *)
(* the registerEngine calls and last describes the latest call (the id,    *)
(* asDefault, whether the call came from registerEngineLazy, whether       *)
(* registerEngineLazy returned without registering, and the default        *)
(* before it); lazyPending holds the                                       *)
(* engines whose initialize(), called by registerEngineLazy, has not       *)
(* settled; batches holds one record per initializeAll() invocation: the   *)
(* engines registered when it started, those not yet called (todo), the    *)
(* one whose initialize() it awaits, and the calls it made of each.        *)
(***************************************************************************)
EngineIds == {"claude-code", "iflow"}

NewRegistry ==
    [entries |-> <<>>, regs |-> 0, lazyPending |-> {}, batches |-> <<>>,
     last |-> [id |-> "none", asDefault |-> FALSE, lazy |-> FALSE,
               skipped |-> FALSE, before |-> "none"]]

\* registry.has(id)
has(reg, engineId) == engineId \in DOMAIN reg.entries

\* registry.getDefault(): the default engine, or "none" when it signals
\* that none is registered
getDefault(reg) ==
    LET defaults == {e \in DOMAIN reg.entries : reg.entries[e].isDefault}
    IN  IF defaults = {} THEN "none" ELSE CHOOSE e \in defaults : TRUE

\* registerEngine(engine, { asDefault }): the entries after the call
registerEngine(reg, engineId, asDefault) ==
    [e \in DOMAIN reg.entries \cup {engineId} |->
        IF e = engineId
        THEN [isDefault |-> asDefault \/ (has(reg, e) /\ reg.entries[e].isDefault),
              instance  |-> reg.regs + 1]
        ELSE [isDefault |-> reg.entries[e].isDefault /\ ~asDefault,
              instance  |-> reg.entries[e].instance]]

\* the registry after a registerEngine call
Registered(reg, engineId, asDefault, lazy) ==
    [reg EXCEPT
        !.entries = registerEngine(reg, engineId, asDefault),
        !.regs = @ + 1,
        !.last = [id |-> engineId, asDefault |-> asDefault, lazy |-> lazy,
                  skipped |-> FALSE, before |-> getDefault(reg)]]

\* a new initializeAll() invocation on the engines registered in reg
NewBatch(reg) ==
    [engines |-> DOMAIN reg.entries, todo |-> DOMAIN reg.entries,
     awaiting |-> "none", called |-> [e \in DOMAIN reg.entries |-> 0],
     failed |-> {}, done |-> FALSE]

\* the outcomes of engine.initialize(): IFlowEngine.initialize catches
\* every error and so never throws
InitializeOutcomes(engineId) ==
    IF engineId = "iflow" THEN {"true", "false"}
    ELSE {"true", "false", "throws"}

\* registerEngine(engine, { asDefault }) called directly
RegisterEngine(engineId, asDefault) ==
    /\ registry.regs < MaxRegs
    /\ registry' = Registered(registry, engineId, asDefault, FALSE)
    /\ UNCHANGED <<impl, status, isDisposed, baseVars, iflowVars, listeners,
                   hookCalls, queueVars, parserVars, engine, sessions>>
    /\ UNCHANGED serviceVars

\* bootstrapEngines(defaultEngineId) up to its await: registers the engine
\* as default and calls registry.initializeAll()
BootstrapEngines(defaultEngineId) ==
    /\ registry.regs < MaxRegs
    /\ Len(registry.batches) < MaxBoots
    /\ LET reg == Registered(registry, defaultEngineId, TRUE, FALSE)
       IN  registry' = [reg EXCEPT !.batches = Append(@, NewBatch(reg))]
    /\ UNCHANGED <<impl, status, isDisposed, baseVars, iflowVars, listeners,
                   hookCalls, queueVars, parserVars, engine, sessions>>
    /\ UNCHANGED serviceVars

\* the registry after a registerEngineLazy(engineId) that found the
\* engine registered and returned
Skipped(reg, engineId) ==
    [reg EXCEPT !.last = [id |-> engineId, asDefault |-> FALSE,
                          lazy |-> TRUE, skipped |-> TRUE,
                          before |-> getDefault(reg)]]

\* a registerEngineLazy that registers the engine as the default
RegisterEngineLazyAsDefault(engineId) ==
    /\ IF has(registry, engineId)
       THEN registry' = Skipped(registry, engineId)
       ELSE /\ registry.regs < MaxRegs
            /\ registry' = [Registered(registry, engineId, TRUE, TRUE) EXCEPT
                                !.lazyPending = @ \cup {engineId}]
    /\ UNCHANGED <<impl, status, isDisposed, baseVars, iflowVars, listeners,
                   hookCalls, queueVars, parserVars, engine, sessions>>
    /\ UNCHANGED serviceVars

\* a registerEngineLazy that does not ask registry.has(engineId)
RegisterEngineLazyUnchecked(engineId) ==
    /\ registry.regs < MaxRegs
    /\ registry' = [Registered(registry, engineId, FALSE, TRUE) EXCEPT
                        !.lazyPending = @ \cup {engineId}]
    /\ UNCHANGED <<impl, status, isDisposed, baseVars, iflowVars, listeners,
                   hookCalls, queueVars, parserVars, engine, sessions>>
    /\ UNCHANGED serviceVars

\* registerEngineLazy(engineId) up to its await: returns when the engine
\* is registered, else registers it without asDefault and calls its
\* initialize(); has, registerEngine and the call of initialize run in one
\* synchronous stretch, the await comes after them
RegisterEngineLazy(engineId) ==
    /\ IF has(registry, engineId)
       THEN registry' = Skipped(registry, engineId)
       ELSE /\ registry.regs < MaxRegs
            /\ registry' = [Registered(registry, engineId, FALSE, TRUE) EXCEPT
                                !.lazyPending = @ \cup {engineId}]
    /\ UNCHANGED <<impl, status, isDisposed, baseVars, iflowVars, listeners,
                   hookCalls, queueVars, parserVars, engine, sessions>>
    /\ UNCHANGED serviceVars

\* the initialize() awaited by registerEngineLazy settles
LazySettles(engineId) ==
    /\ engineId \in registry.lazyPending
    /\ registry' = [registry EXCEPT !.lazyPending = @ \ {engineId}]
    /\ UNCHANGED <<impl, status, isDisposed, baseVars, iflowVars, listeners,
                   hookCalls, queueVars, parserVars, engine, sessions>>
    /\ UNCHANGED serviceVars

\* initializeAll(), batch b: calls initialize() of the next engine
InitializeAllCalls(b, engineId) ==
    /\ b \in DOMAIN registry.batches
    /\ ~registry.batches[b].done
    /\ registry.batches[b].awaiting = "none"
    /\ engineId \in registry.batches[b].todo
    /\ registry' = [registry EXCEPT
            !.batches[b].todo = @ \ {engineId},
            !.batches[b].awaiting = engineId,
            !.batches[b].called[engineId] = @ + 1]
    /\ UNCHANGED <<impl, status, isDisposed, baseVars, iflowVars, listeners,
                   hookCalls, queueVars, parserVars, engine, sessions>>
    /\ UNCHANGED serviceVars

\* an initializeAll() that stops at the first engine that fails
InitializeAllAborts(b, outcome) ==
    /\ b \in DOMAIN registry.batches
    /\ registry.batches[b].awaiting # "none"
    /\ outcome \in InitializeOutcomes(registry.batches[b].awaiting)
    /\ registry' = [registry EXCEPT
            !.batches[b].awaiting = "none",
            !.batches[b].failed =
                IF outcome = "true" THEN @
                ELSE @ \cup {registry.batches[b].awaiting},
            !.batches[b].done =
                registry.batches[b].todo = {} \/ outcome # "true"]
    /\ UNCHANGED <<impl, status, isDisposed, baseVars, iflowVars, listeners,
                   hookCalls, queueVars, parserVars, engine, sessions>>
    /\ UNCHANGED serviceVars

\* initializeAll(), batch b: the awaited initialize() settles; a failure
\* is collected and the batch goes on
InitializeAllSettles(b, outcome) ==
    /\ b \in DOMAIN registry.batches
    /\ registry.batches[b].awaiting # "none"
    /\ outcome \in InitializeOutcomes(registry.batches[b].awaiting)
    /\ registry' = [registry EXCEPT
            !.batches[b].awaiting = "none",
            !.batches[b].failed =
                IF outcome = "true" THEN @
                ELSE @ \cup {registry.batches[b].awaiting},
            !.batches[b].done = registry.batches[b].todo = {}]
    /\ UNCHANGED <<impl, status, isDisposed, baseVars, iflowVars, listeners,
                   hookCalls, queueVars, parserVars, engine, sessions>>
    /\ UNCHANGED serviceVars

RegistryNext ==
    \/ \E engineId \in EngineIds, asDefault \in BOOLEAN :
           RegisterEngine(engineId, asDefault)
    \/ \E defaultEngineId \in EngineIds : BootstrapEngines(defaultEngineId)
    \/ \E engineId \in EngineIds : RegisterEngineLazy(engineId)
    \/ \E engineId \in EngineIds : LazySettles(engineId)
    \/ \E b \in 1..MaxBoots, engineId \in EngineIds :
           InitializeAllCalls(b, engineId)
    \/ \E b \in 1..MaxBoots, outcome \in {"true", "false", "throws"} :
           InitializeAllSettles(b, outcome)


(***************************************************************************)
(* Task templates (task-template.ts).  A text is the sequence of its       *)
(* pieces: a placeholder such as "{{goal}}" or "{{ goal }}" is one piece,  *)
(* the text between placeholders another, and <<>> is the empty string.    *)
(* An optional value is the set of its values: None when it is undefined.  *)
(* rendering holds a template id, a context, and what each of the four     *)
(* operations answered when it was applied to them.                        *)
(***************************************************************************)
None == {}
Some(x) == {x}
The(o) == CHOOSE x \in o : TRUE

\* a call that threw, a call that returned, and no call yet
Throws(error) == [called |-> TRUE, error |-> Some(error), value |-> None]
Returns(value) == [called |-> TRUE, error |-> None, value |-> Some(value)]
NotCalled == [called |-> FALSE, error |-> None, value |-> None]

VariableNames == {"goal", "prompt", "language"}

\* the values of context variables: the empty string, a plain text, and a
\* text that reads like a placeholder
Values == { <<>>, <<"X">>, <<"{{prompt}}">> }

\* context.variables, in the order of Object.entries
Entries ==
    UNION { { e \in [1..n -> [key : VariableNames, value : Values]] :
                \A i, j \in 1..n : i # j => e[i].key # e[j].key } :
            n \in 0..MaxVars }

Contexts ==
    [variables : Entries,
     files : {None, Some(<<>>), Some(<<"src/a.ts">>)},
     extra : {None, Some([mode |-> "fast"])}]

\* the templates registered in the registry of the manager
Templates ==
    { [id |-> "chat", kind |-> "chat",
       promptTemplate |-> <<"{{prompt}}">>,
       variables |-> Some(<<[name |-> "prompt", required |-> TRUE]>>),
       requireFiles |-> FALSE],
      [id |-> "refactor", kind |-> "refactor",
       promptTemplate |->
           <<"Refactor for ", "{{goal}}", ": ", "{{ prompt }}", "{{#if files}}">>,
       variables |-> Some(<<[name |-> "goal", required |-> FALSE],
                            [name |-> "prompt", required |-> TRUE]>>),
       requireFiles |-> TRUE],
      [id |-> "review", kind |-> "analyze",
       promptTemplate |->
           <<"{{goal}}", " in ", "{{language}}", " then ", "{{goal}}">>,
       variables |-> Some(<<[name |-> "language", required |-> TRUE],
                            [name |-> "goal", required |-> TRUE]>>),
       requireFiles |-> FALSE],
      [id |-> "plain", kind |-> "generate",
       promptTemplate |-> <<"Say ", "{{ goal }}">>,
       variables |-> None,
       requireFiles |-> FALSE] }

TemplateIds == { t.id : t \in Templates } \cup {"unknown"}

\* TemplateRegistry.get(id)
getTemplate(templateId) == { t \in Templates : t.id = templateId }

\* new TemplateRenderError(message, missingVariables)
TemplateRenderError(message, missingVariables) ==
    [name |-> "TemplateRenderError", message |-> message,
     missingVariables |-> missingVariables]

\* context.variables[name]
Lookup(variables, name) ==
    { variables[i].value : i \in { j \in DOMAIN variables : variables[j].key = name } }

\* !value of an optional string or array: undefined or empty
Blank(o) == o = None \/ The(o) = <<>>

\* the regular expression \{\{\s*key\s*\}\} matches the piece
Matches(piece, key) ==
    piece \in { "{{" \o key \o "}}", "{{ " \o key \o " }}" }

\* result.replace(regex, value) with the g flag
RECURSIVE replace(_, _, _)
replace(text, key, value) ==
    IF text = <<>> THEN <<>>
    ELSE (IF Matches(Head(text), key) THEN value ELSE <<Head(text)>>)
             \o replace(Tail(text), key, value)

\* renderTemplate(template, variables): one replace per entry, in order
RECURSIVE renderTemplate(_, _)
renderTemplate(template, variables) ==
    IF variables = <<>> THEN template
    ELSE renderTemplate(replace(template, Head(variables).key,
                                Head(variables).value),
                        Tail(variables))

\* the loop of validateVariables over template.variables
RECURSIVE pushMissing(_, _)
pushMissing(variables, context) ==
    IF variables = <<>> THEN <<>>
    ELSE (IF Head(variables).required
             /\ Blank(Lookup(context.variables, Head(variables).name))
          THEN <<Head(variables).name>> ELSE <<>>)
             \o pushMissing(Tail(variables), context)

\* a validateVariables that reports the first missing variable only
validateVariablesFirstOnly(template, context) ==
    IF Blank(template.variables)
    THEN [valid |-> TRUE, missing |-> None]
    ELSE LET missing == pushMissing(The(template.variables), context)
         IN  [valid |-> Len(missing) = 0,
              missing |-> IF Len(missing) > 0
                          THEN Some(<<Head(missing)>>) ELSE None]

validateVariables(template, context) ==
    IF Blank(template.variables)
    THEN [valid |-> TRUE, missing |-> None]
    ELSE LET missing == pushMissing(The(template.variables), context)
         IN  [valid |-> Len(missing) = 0,
              missing |-> IF Len(missing) > 0 THEN Some(missing) ELSE None]

\* the message `Missing required variables: ${missing.join(', ')}`
MissingMessage(missing) ==
    <<"Missing required variables: ">> \o (IF missing = None THEN <<>> ELSE The(missing))

\* this.template.requireFiles && (!context.files || context.files.length === 0)
FilesRequired(template, context) ==
    template.requireFiles /\ Blank(context.files)

\* a render that does not test the files requirement
renderWithoutFiles(template, context, taskId, uuid) ==
    LET validation == validateVariables(template, context) IN
    IF ~validation.valid
    THEN Throws(TemplateRenderError(MissingMessage(validation.missing),
                                    validation.missing))
    ELSE Returns([id |-> Or(taskId, uuid),
                  kind |-> template.kind,
                  input |-> [prompt |-> renderTemplate(template.promptTemplate,
                                                        context.variables),
                             files |-> context.files,
                             extra |-> context.extra]])

\* TaskTemplate.render(context, taskId); uuid is what crypto.randomUUID()
\* would return
render(template, context, taskId, uuid) ==
    LET validation == validateVariables(template, context) IN
    IF ~validation.valid
    THEN Throws(TemplateRenderError(MissingMessage(validation.missing),
                                    validation.missing))
    ELSE IF FilesRequired(template, context)
    THEN Throws(TemplateRenderError(
                    <<"This template requires at least one file">>, None))
    ELSE Returns([id |-> Or(taskId, uuid),
                  kind |-> template.kind,
                  input |-> [prompt |-> renderTemplate(template.promptTemplate,
                                                        context.variables),
                             files |-> context.files,
                             extra |-> context.extra]])

\* a validate that does not test the files requirement
validateWithoutFiles(template, context) ==
    LET variableValidation == validateVariables(template, context)
        errors == IF ~variableValidation.valid
                  THEN <<MissingMessage(variableValidation.missing)>>
                  ELSE <<>>
    IN  Returns([valid |-> Len(errors) = 0,
                 errors |-> IF Len(errors) > 0 THEN Some(errors) ELSE None])

\* TaskTemplate.validate(context)
validate(template, context) ==
    LET variableValidation == validateVariables(template, context)
        errors == (IF ~variableValidation.valid
                   THEN <<MissingMessage(variableValidation.missing)>>
                   ELSE <<>>)
                  \o (IF FilesRequired(template, context)
                      THEN <<<<"This template requires at least one file">>>>
                      ELSE <<>>)
    IN  Returns([valid |-> Len(errors) = 0,
                 errors |-> IF Len(errors) > 0 THEN Some(errors) ELSE None])

\* TaskTemplateManager.render(templateId, context, taskId)
managerRender(templateId, context, taskId, uuid) ==
    LET template == getTemplate(templateId) IN
    IF template = None
    THEN Throws(TemplateRenderError(<<"Template not found: ", templateId>>, None))
    ELSE render(The(template), context, taskId, uuid)

\* TaskTemplateManager.validate(templateId, context)
managerValidate(templateId, context) ==
    LET template == getTemplate(templateId) IN
    IF template = None
    THEN Returns([valid |-> FALSE,
                  errors |-> Some(<<<<"Template not found: ", templateId>>>>)])
    ELSE validate(The(template), context)

\* the task ids a caller passes: none, or an id of its own
TaskIdArgs == {Undef, "task-1"}

\* before any call: a template id and a context, nothing applied to them
NoRendering ==
    [templateId |-> "unknown",
     context |-> [variables |-> <<>>, files |-> None, extra |-> None],
     render |-> NotCalled, validate |-> NotCalled,
     managerRender |-> NotCalled, managerValidate |-> NotCalled]

RenderingInputs ==
    { [NoRendering EXCEPT !.templateId = t, !.context = c] :
          t \in TemplateIds, c \in Contexts }

\* new TaskTemplate(template).render(context, taskId)
Render(taskId) ==
    /\ getTemplate(rendering.templateId) # None
    /\ ~rendering.render.called
    /\ rendering' = [rendering EXCEPT !.render =
           render(The(getTemplate(rendering.templateId)), rendering.context,
                  taskId, "uuid-1")]
    /\ UNCHANGED <<impl, status, isDisposed, baseVars, iflowVars, listeners,
                   hookCalls, queueVars, parserVars, engineVars,
                   selection, adjustment>>

\* new TaskTemplate(template).validate(context)
Validate ==
    /\ getTemplate(rendering.templateId) # None
    /\ ~rendering.validate.called
    /\ rendering' = [rendering EXCEPT !.validate =
           validate(The(getTemplate(rendering.templateId)), rendering.context)]
    /\ UNCHANGED <<impl, status, isDisposed, baseVars, iflowVars, listeners,
                   hookCalls, queueVars, parserVars, engineVars,
                   selection, adjustment>>

\* manager.render(templateId, context, taskId)
ManagerRender(taskId) ==
    /\ ~rendering.managerRender.called
    /\ rendering' = [rendering EXCEPT !.managerRender =
           managerRender(rendering.templateId, rendering.context,
                         taskId, "uuid-1")]
    /\ UNCHANGED <<impl, status, isDisposed, baseVars, iflowVars, listeners,
                   hookCalls, queueVars, parserVars, engineVars,
                   selection, adjustment>>

\* manager.validate(templateId, context)
ManagerValidate ==
    /\ ~rendering.managerValidate.called
    /\ rendering' = [rendering EXCEPT !.managerValidate =
           managerValidate(rendering.templateId, rendering.context)]
    /\ UNCHANGED <<impl, status, isDisposed, baseVars, iflowVars, listeners,
                   hookCalls, queueVars, parserVars, engineVars,
                   selection, adjustment>>

TemplateNext ==
    \/ \E taskId \in TaskIdArgs : Render(taskId)
    \/ Validate
    \/ \E taskId \in TaskIdArgs : ManagerRender(taskId)
    \/ ManagerValidate

(***************************************************************************)
(* TokenBudgetController (TokenBudgetController.ts).  selection holds a    *)
(* controller, the arguments of one selectWithinBudget call and, once the  *)
(* call was made, its result.  Of the text of a file only the length       *)
(* matters to the estimate of its structure.                               *)
(***************************************************************************)
DefaultContextSize == 8000
systemReserved == 1000
userMessageReserved == 2000
compressionThreshold == 500

\* new TokenBudgetController(config): config.contextSize may be given;
\* state.limit is config.available at construction
NewTokenBudgetController(contextSize) ==
    LET size == IF contextSize = None THEN DefaultContextSize
                ELSE The(contextSize)
    IN  [config |-> [contextSize |-> size,
                     systemReserved |-> systemReserved,
                     userMessageReserved |-> userMessageReserved,
                     compressionThreshold |-> compressionThreshold],
         state |-> [used |-> 0,
                    limit |-> size - systemReserved - userMessageReserved]]

\* the comparator of sortByPriority is negative: a goes before b
Before(a, b) ==
    IF a.priority # b.priority
    THEN b.priority - a.priority < 0
    ELSE b.lastAccessedAt - a.lastAccessedAt < 0

\* Array.prototype.sort is stable: an entry goes in front of the first one
\* it is to precede
RECURSIVE Inserted(_, _)
Inserted(sorted, entry) ==
    IF sorted = <<>> THEN <<entry>>
    ELSE IF Before(entry, Head(sorted)) THEN <<entry>> \o sorted
    ELSE <<Head(sorted)>> \o Inserted(Tail(sorted), entry)

\* sortByPriority(entries)
RECURSIVE sortByPriority(_)
sortByPriority(entries) ==
    IF entries = <<>> THEN <<>>
    ELSE Inserted(sortByPriority(SubSeq(entries, 1, Len(entries) - 1)),
                  Last(entries))

\* canCompress(entry)
canCompress(controller, entry) ==
    entry.type = "file"
        /\ entry.estimatedTokens > controller.config.compressionThreshold

\* estimateStructureTokens(content): Math.ceil(content.length / 10)
estimateStructureTokens(length) == (length + 9) \div 10

\* the file_structure entry compress builds from a file entry
Compressed(entry) ==
    [entry EXCEPT !.type = "file_structure",
                  !.content = [type |-> "file_structure",
                               path |-> entry.content.path],
                  !.estimatedTokens =
                      estimateStructureTokens(entry.content.length)]

\* a compress that returns the structure without comparing it to the budget
compressUnchecked(entry, budget) ==
    IF entry.type = "file" THEN Some(Compressed(entry)) ELSE None

\* compress(entry, budget): the compressed entry, or null
compress(entry, budget) ==
    IF entry.type = "file"
    THEN IF Compressed(entry).estimatedTokens <= budget
         THEN Some(Compressed(entry)) ELSE None
    ELSE None

\* the loop of selectWithinBudget over the sorted entries
RECURSIVE selectLoop(_, _, _, _)
selectLoop(controller, sorted, budget, acc) ==
    IF sorted = <<>> THEN acc
    ELSE
      LET entry == Head(sorted)
          entryTokens == entry.estimatedTokens
          compressed == compress(entry, budget - acc.usedTokens)
          dropped == [acc EXCEPT !.dropped = Append(@, entry)]
      IN  selectLoop(controller, Tail(sorted), budget,
            IF acc.usedTokens + entryTokens <= budget
            THEN [acc EXCEPT !.selected = Append(@, entry),
                             !.usedTokens = @ + entryTokens]
            ELSE IF canCompress(controller, entry)
            THEN IF compressed # None
                 THEN [acc EXCEPT !.selected = Append(@, The(compressed)),
                                  !.usedTokens =
                                      @ + The(compressed).estimatedTokens]
                 ELSE dropped
            ELSE dropped)

\* selectWithinBudget(entries, maxTokens)
selectWithinBudget(controller, entries, maxTokens) ==
    LET budget == IF maxTokens = None THEN controller.state.limit
                  ELSE The(maxTokens)
        result == selectLoop(controller, sortByPriority(entries), budget,
                      [selected |-> <<>>, dropped |-> <<>>, usedTokens |-> 0])
    IN  [selected |-> result.selected, dropped |-> result.dropped]

\* the entries a caller passes: files of two lengths and text selections,
\* of low and high priority, of no, some and many tokens
EntryShapes ==
    [type : {"file"}, priority : {1, 5}, estimatedTokens : {0, 400, 600},
     content : [type : {"file"}, path : {"src/a.ts"}, length : {1000, 7000}]]
    \cup
    [type : {"selection"}, priority : {1, 5}, estimatedTokens : {0, 400, 600},
     content : [type : {"selection"}, path : {"src/a.ts"}, length : {40}]]

\* the entry of a shape at position i of the list: later entries were
\* accessed later
EntryAt(shape, i) ==
    [id |-> i, type |-> shape.type, priority |-> shape.priority,
     lastAccessedAt |-> i, estimatedTokens |-> shape.estimatedTokens,
     content |-> shape.content]

EntryLists ==
    UNION { { [i \in 1..n |-> EntryAt(shapes[i], i)] :
                shapes \in [1..n -> EntryShapes] } : n \in 0..MaxEntries }

\* before any call
NoSelection ==
    [controller |-> NewTokenBudgetController(None), entries |-> <<>>,
     maxTokens |-> None, called |-> FALSE,
     selected |-> <<>>, dropped |-> <<>>]

SelectionInputs ==
    { [NoSelection EXCEPT !.controller = NewTokenBudgetController(size),
                          !.entries = entries, !.maxTokens = maxTokens] :
          size \in {None, Some(3500), Some(2000)},
          entries \in EntryLists,
          maxTokens \in {None, Some(0), Some(500), Some(1000)} }

\* controller.selectWithinBudget(entries, maxTokens)
SelectWithinBudget ==
    /\ ~selection.called
    /\ LET result == selectWithinBudget(selection.controller,
                         selection.entries, selection.maxTokens)
       IN  selection' = [selection EXCEPT !.called = TRUE,
                                          !.selected = result.selected,
                                          !.dropped = result.dropped]
    /\ UNCHANGED <<impl, status, isDisposed, baseVars, iflowVars, listeners,
                   hookCalls, queueVars, parserVars, engineVars,
                   rendering, adjustment>>

BudgetNext == SelectWithinBudget

(***************************************************************************)
(* PriorityManager (PriorityManager.ts) with its built-in rules.           *)
(* adjustment holds the arguments of one adjustPriorities call, the time   *)
(* Date.now() returns during it and, once the call was made, its result.   *)
(***************************************************************************)
\* the staleness threshold of rule 3, in milliseconds
STALE_THRESHOLD == 30 * 60 * 1000

\* Date.now() during the call, and the access times of a stale and of a
\* fresh entry
Now == 2 * STALE_THRESHOLD
AccessTimes == {0, Now - 1000}

Min(a, b) == IF a < b THEN a ELSE b
Max(a, b) == IF a > b THEN a ELSE b

IsFileEntry(entry) == entry.type = "file" \/ entry.type = "file_structure"

\* array.includes(value) of an optional array: undefined when there is none
Includes(array, value) ==
    IF array = None THEN None
    ELSE Some(\E i \in DOMAIN The(array) : The(array)[i] = value)

\* the built-in rules, in the order of BUILTIN_RULES
RuleNames ==
    <<"mentioned_files", "current_file", "staleness", "error_diagnostics",
      "frequent_access">>

\* rule.condition(entry, query)
condition(rule, entry, query, now) ==
    CASE rule = "mentioned_files" ->
             IF ~IsFileEntry(entry) THEN FALSE
             ELSE IF Includes(query.mentionedFiles, entry.content.path) = None
                  THEN FALSE
                  ELSE The(Includes(query.mentionedFiles, entry.content.path))
      [] rule = "current_file" ->
             IF ~IsFileEntry(entry) THEN FALSE
             ELSE \/ \E i \in DOMAIN entry.metadata.tags :
                         entry.metadata.tags[i] = "current_file"
                  \/ query.currentFile = Some(entry.content.path)
      [] rule = "staleness" ->
             now - entry.lastAccessedAt > STALE_THRESHOLD
      [] rule = "error_diagnostics" ->
             IF entry.type # "diagnostics" THEN FALSE
             ELSE \E i \in DOMAIN entry.content.items :
                      entry.content.items[i].severity = "error"
      [] rule = "frequent_access" ->
             entry.accessCount >= 5

\* rule.adjustment(entry)
ruleAdjustment(rule, entry) ==
    CASE rule = "mentioned_files" -> 5
      [] rule = "current_file" -> Min(5, entry.priority + 1)
      [] rule = "staleness" -> Max(0, entry.priority - 1)
      [] rule = "error_diagnostics" -> Min(5, entry.priority + 1)
      [] rule = "frequent_access" -> Min(5, entry.priority + 1)

\* the loop of adjustPriorities over the rules: every rule that matches
\* assigns adjustedPriority
RECURSIVE applyRules(_, _, _, _, _)
applyRules(rules, entry, query, now, adjustedPriority) ==
    IF rules = <<>> THEN adjustedPriority
    ELSE applyRules(Tail(rules), entry, query, now,
             IF condition(Head(rules), entry, query, now)
             THEN ruleAdjustment(Head(rules), entry)
             ELSE adjustedPriority)

\* adjustPriorities(entries, query): a copy of each entry with the
\* adjusted priority
adjustPriorities(entries, query, now) ==
    [i \in DOMAIN entries |->
        [entries[i] EXCEPT !.priority =
            Max(0, Min(5, applyRules(RuleNames, entries[i], query, now,
                                     entries[i].priority)))]]

\* the entries a caller passes: files and diagnostics of priority 0, 2 and
\* 5, stale or fresh, rarely or often accessed, a file structure and a
\* file tagged as the current file
PriorityShapes ==
    [type : {"file"}, priority : {0, 2, 5},
     content : {[path |-> "src/a.ts", items |-> <<>>]},
     metadata : {[tags |-> <<>>]},
     lastAccessedAt : AccessTimes, accessCount : {0, 5}]
    \cup
    [type : {"diagnostics"}, priority : {0, 2, 5},
     content : {[path |-> "", items |-> <<[severity |-> "error"]>>],
                [path |-> "", items |-> <<[severity |-> "warning"]>>]},
     metadata : {[tags |-> <<>>]},
     lastAccessedAt : {Now - 1000}, accessCount : {0}]
    \cup
    { [type |-> "file_structure", priority |-> 2,
       content |-> [path |-> "src/a.ts", items |-> <<>>],
       metadata |-> [tags |-> <<>>],
       lastAccessedAt |-> 0, accessCount |-> 0],
      [type |-> "file", priority |-> 2,
       content |-> [path |-> "src/a.ts", items |-> <<>>],
       metadata |-> [tags |-> <<"current_file">>],
       lastAccessedAt |-> Now - 1000, accessCount |-> 0] }

PriorityLists ==
    UNION { [1..n -> PriorityShapes] : n \in 0..MaxEntries }

Queries ==
    [mentionedFiles : {None, Some(<<>>), Some(<<"src/a.ts">>),
                       Some(<<"src/b.ts">>)},
     currentFile : {None, Some("src/a.ts")}]

\* before any call
NoAdjustment ==
    [entries |-> <<>>, query |-> [mentionedFiles |-> None,
                                  currentFile |-> None],
     called |-> FALSE, returned |-> <<>>]

AdjustmentInputs ==
    { [NoAdjustment EXCEPT !.entries = entries, !.query = query] :
          entries \in PriorityLists, query \in Queries }

\* manager.adjustPriorities(entries, query)
AdjustPriorities ==
    /\ ~adjustment.called
    /\ adjustment' = [adjustment EXCEPT !.called = TRUE,
           !.returned = adjustPriorities(adjustment.entries,
                                         adjustment.query, Now)]
    /\ UNCHANGED <<impl, status, isDisposed, baseVars, iflowVars, listeners,
                   hookCalls, queueVars, parserVars, engineVars,
                   rendering, selection>>

PriorityNext == AdjustPriorities


(***************************************************************************)
(* Initial state: a freshly constructed session of either class, and the   *)
(* other components before any call.                                       *)
(***************************************************************************)
Constructed ==
    /\ impl \in {"base", "iflow"}
    /\ status = "idle"
    /\ isDisposed = FALSE
    /\ gen = NewGen(NoTask, "none")
    /\ runCalls = 0
    /\ toolCalls = <<>>
    /\ process = 0
    /\ currentTaskId = Null
    /\ runs = <<>>
    /\ procs = <<>>
    /\ listeners = {}
    /\ hookCalls = 0
    /\ state = NoState
    /\ consumer = NoConsumer
    /\ emitted = <<>>
    /\ fed = <<>>
    /\ parsed = <<>>
    /\ twin = NewParser
    /\ engine = NewEngine
    /\ sessions = <<>>
    /\ registry = NewRegistry

Init ==
    /\ Constructed
    /\ rendering = NoRendering
    /\ selection = NoSelection
    /\ adjustment = NoAdjustment

(***************************************************************************)
(* Specification.                                                          *)
(***************************************************************************)
Next ==
    \/ \E task \in Tasks : BaseRun(task)
    \/ BasePull
    \/ BaseDeliver
    \/ \E line \in RawLines : BaseEmit(line)
    \/ \E ok \in BOOLEAN : BaseStreamEnd(ok)
    \/ BaseReturn
    \/ \E taskId \in AbortArgs : BaseAbort(taskId)
    \/ BaseDispose
    \/ \E task \in Tasks : IFlowRun(task)
    \/ \E r \in 1..MaxRuns : IFlowStarted(r)
    \/ \E r \in 1..MaxRuns : IFlowStartFailed(r)
    \/ \E r \in 1..MaxRuns : IFlowPull(r)
    \/ \E r \in 1..MaxRuns : IFlowResume(r)
    \/ \E r \in 1..MaxRuns : IFlowReturn(r)
    \/ \E taskId \in AbortArgs : IFlowAbort(taskId)
    \/ IFlowDispose
    \/ \E h \in 1..MaxRuns, line \in StdoutLines : ProcessWrites(h, line)

Spec == Init /\ [][Next]_vars

(***************************************************************************)
(* onEvent(listener) of a session and the function it returns.             *)
(***************************************************************************)
ListenerNames == {"ui", "log"}

\* onEvent(listener): eventEmitter.onEvent(listener)
OnEvent(listener) ==
    /\ listeners' = listeners \cup {listener}
    /\ UNCHANGED <<impl, status, isDisposed, baseVars, iflowVars,
                   hookCalls, queueVars, parserVars>>
    /\ UNCHANGED engineVars
    /\ UNCHANGED serviceVars

\* the function onEvent returned is called
Unlisten(listener) ==
    /\ listener \in listeners
    /\ listeners' = listeners \ {listener}
    /\ UNCHANGED <<impl, status, isDisposed, baseVars, iflowVars,
                   hookCalls, queueVars, parserVars>>
    /\ UNCHANGED engineVars
    /\ UNCHANGED serviceVars

(***************************************************************************)
(* ToolCallManager: any sequence of its operations on one instance.        *)
(***************************************************************************)
ToolNames   == {"read", "write"}
ToolOutputs == {Undef, "ok"}

StartToolCall(toolName, toolId, input) ==
    /\ toolCalls' = startToolCall(toolCalls, toolName, toolId, input)
    /\ UNCHANGED <<impl, status, isDisposed, gen, runCalls, iflowVars,
                   listeners, hookCalls, queueVars, parserVars>>
    /\ UNCHANGED engineVars
    /\ UNCHANGED serviceVars

EndToolCall(toolId, output, success) ==
    /\ toolCalls' = endToolCall(toolCalls, toolId, output, success)
    /\ UNCHANGED <<impl, status, isDisposed, gen, runCalls, iflowVars,
                   listeners, hookCalls, queueVars, parserVars>>
    /\ UNCHANGED engineVars
    /\ UNCHANGED serviceVars

RemoveToolCall(toolId) ==
    /\ toolCalls' = removeToolCall(toolCalls, toolId)
    /\ UNCHANGED <<impl, status, isDisposed, gen, runCalls, iflowVars,
                   listeners, hookCalls, queueVars, parserVars>>
    /\ UNCHANGED engineVars
    /\ UNCHANGED serviceVars

\* ToolCallManager.clear
Clear ==
    /\ toolCalls' = <<>>
    /\ UNCHANGED <<impl, status, isDisposed, gen, runCalls, iflowVars,
                   listeners, hookCalls, queueVars, parserVars>>
    /\ UNCHANGED engineVars
    /\ UNCHANGED serviceVars

ToolInit == Init /\ impl = "iflow"

ToolNext ==
    \/ \E toolName \in ToolNames, toolId \in ToolIds :
           StartToolCall(toolName, toolId, "{}")
    \/ \E toolId \in ToolIds, output \in ToolOutputs, success \in BOOLEAN :
           EndToolCall(toolId, output, success)
    \/ \E toolId \in ToolIds : RemoveToolCall(toolId)
    \/ Clear

ToolSpec == ToolInit /\ [][ToolNext]_vars

(***************************************************************************)
(* IFlowEventParser: the same raw events are fed, one parse(event) call    *)
(* each, to two fresh instances constructed with the same session id; each *)
(* instance generates its own tool-call ids.                               *)
(***************************************************************************)
ToolLines ==
    { [type |-> "tool", name |-> "read", args |-> "{a:1}"],
      [type |-> "tool_call", status |-> "start", input |-> "{b:2}"],
      [type |-> "tool", name |-> "write", status |-> ""],
      [type |-> "tool", status |-> "end", name |-> "read", result |-> "ok"],
      [type |-> "tool", status |-> "error", name |-> "read",
       output |-> "bad"] }

ParserInputs == RawLines \cup ToolLines

\* parser.parse(event) on an instance p, toolId being the id it generates
ParserParse(p, event, toolId) ==
    [toolCalls |-> parseToolCalls(p.toolCalls, event, toolId),
     parsed    |-> p.parsed \o parse(event, toolId)]

Parse(event, toolId, twinId) ==
    /\ Len(fed) < MaxFed
    /\ toolId \notin DOMAIN toolCalls
    /\ twinId \notin DOMAIN twin.toolCalls
    /\ fed' = Append(fed, event)
    /\ LET p == ParserParse([toolCalls |-> toolCalls, parsed |-> parsed],
                            event, toolId)
       IN  toolCalls' = p.toolCalls /\ parsed' = p.parsed
    /\ twin' = ParserParse(twin, event, twinId)
    /\ UNCHANGED <<impl, status, isDisposed, gen, runCalls, iflowVars,
                   listeners, hookCalls, queueVars>>
    /\ UNCHANGED engineVars
    /\ UNCHANGED serviceVars

ParserInit == Init /\ impl = "iflow"

ParserNext ==
    \E event \in ParserInputs, toolId \in ToolIds, twinId \in ToolIds :
        Parse(event, toolId, twinId)

ParserSpec == ParserInit /\ [][ParserNext]_vars

(***************************************************************************)
(* IFlowEventParser: raw events of every shape fed to one instance.        *)
(***************************************************************************)
KnownTypes ==
    {"start", "end", "complete", "message", "token", "delta", "tool",
     "tool_call", "progress", "error"}

LineInputs ==
    { [type |-> "token", text |-> "Hel"],
      [type |-> "delta", delta |-> "lo"],
      [type |-> "token", text |-> "", delta |-> "x"],
      [type |-> "token"],
      [type |-> "tool", name |-> "read", args |-> "{a:1}"],
      [type |-> "tool_call", status |-> "start", input |-> "{b:2}"],
      [type |-> "tool", name |-> "read", args |-> "{a:1}",
       input |-> "{b:2}"],
      [type |-> "tool", name |-> "write", args |-> Null,
       input |-> "{c:3}"],
      [type |-> "mystery", text |-> "zz"],
      [type |-> Undef],
      [type |-> "end"] }

\* parser.parse(event) on the parser of the session
Feed(event, toolId) ==
    /\ Len(fed) < MaxFed
    /\ toolId \notin DOMAIN toolCalls
    /\ fed' = Append(fed, event)
    /\ LET p == ParserParse([toolCalls |-> toolCalls, parsed |-> parsed],
                            event, toolId)
       IN  toolCalls' = p.toolCalls /\ parsed' = p.parsed
    /\ UNCHANGED <<impl, status, isDisposed, gen, runCalls, iflowVars,
                   listeners, hookCalls, queueVars, twin>>
    /\ UNCHANGED engineVars
    /\ UNCHANGED serviceVars

LineNext ==
    \E event \in LineInputs, toolId \in ToolIds : Feed(event, toolId)

LineSpec == ParserInit /\ [][LineNext]_vars

(***************************************************************************)
(* Two sessions, each with the parser its constructor creates.  toolCalls  *)
(* is the ToolCallManager of this session's parser, twin the parser of the *)
(* other session.  fed records the calls made on this session's parser: a  *)
(* raw event for parse(event), ResetMark for reset().                      *)
(***************************************************************************)
ResetMark == [type |-> "<reset>"]

\* the raw events of the two sessions: a tool start and a tool end
IsolationLines ==
    { [type |-> "tool", name |-> "read", args |-> "{a:1}"],
      [type |-> "tool", status |-> "end", name |-> "read", result |-> "ok"] }

\* a reset() that leaves the ToolCallManager as it is
ResetKeeps ==
    /\ Len(fed) < MaxFed
    /\ fed' = Append(fed, ResetMark)
    /\ UNCHANGED <<impl, status, isDisposed, baseVars, iflowVars,
                   listeners, hookCalls, queueVars, parsed, twin>>
    /\ UNCHANGED engineVars
    /\ UNCHANGED serviceVars

\* parser.reset() on the parser of the session
Reset ==
    /\ Len(fed) < MaxFed
    /\ fed' = Append(fed, ResetMark)
    /\ toolCalls' = <<>>
    /\ UNCHANGED <<impl, status, isDisposed, gen, runCalls, iflowVars,
                   listeners, hookCalls, queueVars, parsed, twin>>
    /\ UNCHANGED engineVars
    /\ UNCHANGED serviceVars

\* parser.parse(event) on the parser of the other session
TwinFeed(event, twinId) ==
    /\ Len(twin.parsed) < MaxFed
    /\ twinId \notin DOMAIN twin.toolCalls
    /\ twin' = ParserParse(twin, event, twinId)
    /\ UNCHANGED <<impl, status, isDisposed, baseVars, iflowVars,
                   listeners, hookCalls, queueVars, fed, parsed>>
    /\ UNCHANGED engineVars
    /\ UNCHANGED serviceVars

\* a reset() that clears one ToolCallManager shared by all parsers
TwinResetShared ==
    /\ twin' = [twin EXCEPT !.toolCalls = <<>>]
    /\ toolCalls' = <<>>
    /\ UNCHANGED <<impl, status, isDisposed, gen, runCalls, iflowVars,
                   listeners, hookCalls, queueVars, fed, parsed>>
    /\ UNCHANGED engineVars
    /\ UNCHANGED serviceVars

\* parser.reset() on the parser of the other session, called directly or
\* by the dispose() of that session
TwinReset ==
    /\ twin' = [twin EXCEPT !.toolCalls = <<>>]
    /\ UNCHANGED <<impl, status, isDisposed, baseVars, iflowVars,
                   listeners, hookCalls, queueVars, fed, parsed>>
    /\ UNCHANGED engineVars
    /\ UNCHANGED serviceVars

IsolationNext ==
    \/ \E event \in IsolationLines, toolId \in ToolIds : Feed(event, toolId)
    \/ Reset
    \/ IFlowDispose
    \/ \E event \in IsolationLines, twinId \in ToolIds :
           TwinFeed(event, twinId)
    \/ TwinReset

IsolationSpec == ParserInit /\ [][IsolationNext]_vars

EngineSpec == Init /\ [][EngineNext]_vars

SessionsSpec == Init /\ [][SessionsNext]_vars

RegistrySpec == Init /\ [][RegistryNext]_vars

\* every initialize() that initializeAll awaits settles, and initializeAll
\* goes on when it can
RegistryFairness ==
    \A b \in 1..MaxBoots :
        /\ WF_vars(\E engineId \in EngineIds : InitializeAllCalls(b, engineId))
        /\ WF_vars(\E outcome \in {"true", "false", "throws"} :
                      InitializeAllSettles(b, outcome))

\* bootstrapEngines and the initializeAll() batches it starts
BatchNext ==
    \/ \E defaultEngineId \in EngineIds : BootstrapEngines(defaultEngineId)
    \/ \E b \in 1..MaxBoots, engineId \in EngineIds :
           InitializeAllCalls(b, engineId)
    \/ \E b \in 1..MaxBoots, outcome \in {"true", "false", "throws"} :
           InitializeAllSettles(b, outcome)

RegistryFairSpec == Init /\ [][BatchNext]_vars /\ RegistryFairness

(***************************************************************************)
(* The task templates: a caller holds a template id and a context and      *)
(* applies render and validate of a TaskTemplate and of the manager.       *)
(***************************************************************************)
TemplateInit ==
    /\ Constructed
    /\ impl = "base"
    /\ rendering \in RenderingInputs
    /\ selection = NoSelection
    /\ adjustment = NoAdjustment

TemplateSpec == TemplateInit /\ [][TemplateNext]_vars

(***************************************************************************)
(* A BaseSession on its own: run, the pulls of its consumer, the sequence  *)
(* executeTask returned, abort and dispose.                                *)
(***************************************************************************)
BaseInit == Init /\ impl = "base"

BaseNext ==
    \/ \E task \in Tasks : BaseRun(task)
    \/ BasePull
    \/ BaseDeliver
    \/ \E line \in RawLines : BaseEmit(line)
    \/ \E ok \in BOOLEAN : BaseStreamEnd(ok)
    \/ BaseReturn
    \/ \E taskId \in AbortArgs : BaseAbort(taskId)
    \/ BaseDispose

BaseSpec == BaseInit /\ [][BaseNext]_vars

(***************************************************************************)
(* The token budget: a caller holds a controller, a list of entries and a  *)
(* budget argument and calls selectWithinBudget.                           *)
(***************************************************************************)
BudgetInit ==
    /\ Constructed
    /\ impl = "base"
    /\ rendering = NoRendering
    /\ selection \in SelectionInputs
    /\ adjustment = NoAdjustment

BudgetSpec == BudgetInit /\ [][BudgetNext]_vars

(***************************************************************************)
(* The priorities: a caller holds a list of entries and a query and calls  *)
(* adjustPriorities of a manager with the built-in rules.                  *)
(***************************************************************************)
PriorityInit ==
    /\ Constructed
    /\ impl = "base"
    /\ rendering = NoRendering
    /\ selection = NoSelection
    /\ adjustment \in AdjustmentInputs

PrioritySpec == PriorityInit /\ [][PriorityNext]_vars

(***************************************************************************)
(* The resources of a session and dispose(): listeners, the process of an  *)
(* IFlowSession and the tool calls of its parser, the pull-sequence        *)
(* listener of a BaseSession.                                              *)
(***************************************************************************)
LifeNext ==
    \/ \E listener \in ListenerNames : OnEvent(listener)
    \/ \E listener \in ListenerNames : Unlisten(listener)
    \/ \E toolName \in ToolNames :
           impl = "iflow" /\ StartToolCall(toolName, "u1", "{}")
    \/ \E task \in Tasks : IFlowRun(task)
    \/ \E r \in 1..MaxRuns : IFlowStarted(r)
    \/ IFlowDispose
    \/ CreateEventIterable
    \/ BaseDispose

LifeSpec == Init /\ [][LifeNext]_vars

(***************************************************************************)
(* The pull-sequence of createEventIterable on the emitter of a            *)
(* BaseSession, with its producer (emit), its consumer (the for-await loop *)
(* of run) and dispose().                                                  *)
(***************************************************************************)
QueueInit == Init /\ impl = "base"

QueueNext ==
    \/ CreateEventIterable
    \/ ExecuteTaskThrows
    \/ \E event \in EmitEvents : Emit(event)
    \/ QueuePull
    \/ QueueTimer
    \/ QueueResume
    \/ QueueReturn
    \/ BaseDispose

QueueSpec == QueueInit /\ [][QueueNext]_vars

\* a consumer that iterates keeps pulling, a resumed generator runs, and
\* the timer of a pending promise fires
QueueFairness ==
    WF_vars(QueuePull) /\ WF_vars(QueueResume) /\ WF_vars(QueueTimer)

QueueFairSpec == QueueSpec /\ QueueFairness

TypeOK ==
    /\ impl \in {"base", "iflow"}
    /\ status \in {"idle", "running", "disposed"}
    /\ isDisposed \in BOOLEAN
    /\ runCalls \in 0..MaxRuns
    /\ Len(runs) <= MaxRuns
    /\ process \in {0} \cup DOMAIN procs
    /\ currentTaskId \in {Null} \cup TaskIds

(***************************************************************************)
(* Fairness: a consumer that is iterating keeps pulling, a resumed         *)
(* iterator runs, the sequence executeTask returned answers a pending      *)
(* pull, and the promise of startIFlowProcess settles.  Calls made by the  *)
(* UI (run, abort, dispose, return) and the output of the process are not  *)
(* fair: they may never happen.                                            *)
(***************************************************************************)
Fairness ==
    /\ WF_vars(BasePull)
    /\ WF_vars(BaseDeliver)
    /\ \A r \in 1..MaxRuns :
        /\ WF_vars(IFlowPull(r))
        /\ WF_vars(IFlowResume(r))
        /\ WF_vars(IFlowStarted(r) \/ IFlowStartFailed(r))

FairSpec == Spec /\ Fairness

(***************************************************************************)
(* Properties of the sessions.                                             *)
(***************************************************************************)
IsTerminal(event) == event.type \in {"session_end", "error"}

\* positions of the sequence s that hold an event of one of the types
Positions(s, types) == {i \in 1..Len(s) : s[i].type \in types}

\* the run of a BaseSession is complete: its body ran to its end
BaseComplete == impl = "base" /\ gen.pc = "done"

\* C1: every complete run of BaseSession.run has yielded exactly one event of
\* type session_end or error, and that event is the last one yielded.
C1_TerminalUniqueness ==
    BaseComplete =>
        /\ Cardinality(Positions(gen.yielded, {"session_end", "error"})) = 1
        /\ IsTerminal(Last(gen.yielded))

\* C2: the sequence yielded by a run of BaseSession.run whose executeTask
\* forwards the parser's events holds exactly one session_start event, and it
\* is the first event.
C2_SingleSessionStart ==
    (impl = "base" /\ gen.yielded # <<>>) =>
        Positions(gen.yielded, {"session_start"}) = {1}

\* C3: once dispose() has been called the status is "disposed" in every
\* later state, whatever operations follow.
C3_DisposedIsTerminal == isDisposed => status = "disposed"

\* the pull-sequence of run r of an IFlowSession has ended by throwing
IFlowThrew(r) == r \in 1..Len(runs) /\ runs[r].pc = "threw"

\* the run of a BaseSession met a failure: executeTask threw, or the sequence
\* it returned threw before producing a terminal event
BaseFailed ==
    \/ gen.inner = "none" /\ gen.pc \in {"atError", "done"}
    \/ /\ gen.inner = "failed"
       /\ gen.taken = Len(Produced(gen))
       /\ Positions(Produced(gen), {"session_end", "error"}) = {}

\* C4: when starting the process or producing the events fails, the
\* pull-sequence yields one error event as its last event and ends normally;
\* iterating it never throws.
C4_FailuresBecomeErrorEvents ==
    /\ \A r \in 1..MaxRuns : ~IFlowThrew(r)
    /\ (BaseComplete /\ BaseFailed) =>
          /\ Last(gen.yielded).type = "error"
          /\ Cardinality(Positions(gen.yielded, {"error"})) = 1

\* the pull-sequence of a run ends in this step, with its last event or
\* because of a failure
BaseRunEnds == impl = "base" /\ gen.pc # "done" /\ gen'.pc = "done"
IFlowRunEnds(r) ==
    /\ impl = "iflow"
    /\ r \in 1..Len(runs)
    /\ runs[r].pc \notin {"done", "threw"}
    /\ runs'[r].pc \in {"done", "threw"}

\* C8: when the pull-sequence of a run ends, the status is "idle" unless the
\* session was disposed (a later run() is then accepted, run rejecting only
\* disposed sessions).
C8_IdleAfterRun ==
    [][(BaseRunEnds \/ \E r \in 1..MaxRuns : IFlowRunEnds(r))
          => (isDisposed' \/ status' = "idle")]_vars

\* a run(task) call, or the first pull of its generator, is made on a
\* disposed session in this step
IFlowRunOnDisposed == impl = "iflow" /\ isDisposed /\ Len(runs') = Len(runs) + 1
BasePullOnDisposed ==
    /\ impl = "base"
    /\ isDisposed
    /\ gen.pc = "created"
    /\ gen'.pc \notin {"created", "returned"}

\* C9: on a disposed session run(task) rejects (IFlowSession at the call,
\* BaseSession at the first pull); the rejected call does not set the status
\* to "running", does not change the current task id, neither calls
\* executeTask nor starts a process, and yields no event.
C9_RunOnDisposedRejects ==
    [][/\ IFlowRunOnDisposed =>
            /\ Last(runs').pc = "rejected"
            /\ Last(runs').start = "none"
            /\ Last(runs').yielded = <<>>
            /\ UNCHANGED <<status, currentTaskId, process, procs>>
       /\ BasePullOnDisposed =>
            /\ gen'.pc = "rejected"
            /\ gen'.inner = "none"
            /\ gen'.yielded = <<>>
            /\ UNCHANGED status
       /\ \A r \in 1..Len(runs) : runs[r].pc = "rejected" => runs'[r] = runs[r]
       /\ (impl = "base" /\ gen.pc = "rejected" /\ gen'.pc = "rejected")
            => gen' = gen]_vars

\* a run() call on a disposed IFlowSession has been rejected
C9_Witness ==
    /\ impl = "iflow"
    /\ \E r \in 1..Len(runs) : runs[r].pc = "rejected"
    /\ status = "disposed"

\* the id of the task the session is running, Null when there is none
CurrentTask ==
    IF impl = "iflow" THEN currentTaskId
    ELSE IF gen.pc \in {"atStart", "atUser", "awaitInner", "atEvent", "atError"}
    THEN gen.task.id
    ELSE Null

\* C10: abort(taskId) with a taskId that differs from the current task id
\* terminates no process and leaves the process handle, the current task id
\* and the status unchanged.
C10_AbortMismatchIsNoOp ==
    [][\A taskId \in TaskIds :
          /\ BaseAbort(taskId) \/ IFlowAbort(taskId)
          /\ CurrentTask # Null
          /\ taskId # CurrentTask
          => UNCHANGED <<status, process, currentTaskId, procs>>]_vars

\* positions of an iterator of an IFlowSession that has ended
IterEnded == {"done", "threw", "returned", "rejected"}

\* C5: when abort() has taken effect (the status is back to "idle") after
\* the n-th run() call, the pull-sequence of that run eventually ends.
C5_AbortedRunTerminates ==
    \A n \in 1..MaxRuns :
        (impl = "iflow" /\ Len(runs) = n /\ status = "idle")
            ~> (Len(runs) >= n /\ runs[n].pc \in IterEnded)

\* the events of s up to and including its first terminal event
RECURSIVE UpToTerminal(_)
UpToTerminal(s) ==
    IF s = <<>> THEN <<>>
    ELSE IF IsTerminal(Head(s)) THEN <<Head(s)>>
    ELSE <<Head(s)>> \o UpToTerminal(Tail(s))

\* the sequence e has been yielded, in order, at the end of the sequence y
YieldedInOrder(e, y) ==
    \E i \in 0..Len(y) :
        /\ Len(y) - i >= Len(e)
        /\ SubSeq(y, i + 1, i + Len(e)) = e

\* the raw output a process may have written
Outputs == UNION {[1..n -> StdoutLines] : n \in 1..MaxOut}

\* C6: the events the parser produces from the lines the process of run h has
\* written are eventually yielded by the pull-sequence of that run, in the
\* order produced, up to the first terminal event (unless the consumer
\* stopped iterating, the process was terminated or the session disposed).
C6_ProcessEventsAreYielded ==
    \A h \in 1..MaxRuns : \A out \in Outputs :
        (impl = "iflow" /\ h \in DOMAIN procs /\ procs[h].out = out)
            ~> /\ h \in DOMAIN procs
               /\ \/ YieldedInOrder(
                         UpToTerminal(convertEventsToAIEvents(out)),
                         runs[h].yielded)
                  \/ runs[h].pc = "returned"
                  \/ procs[h].killed
                  \/ isDisposed

\* C7: the first event of the pull-sequence of IFlowSession.run is
\* session_start with the session id, followed, when the prompt is not
\* empty, by a user_message echoing the prompt (unless the consumer stopped
\* iterating first).
C7_StartsWithSessionStart ==
    \A r \in 1..MaxRuns :
        (impl = "iflow" /\ r \in 1..Len(runs) /\ runs[r].pc # "rejected")
            ~> /\ r \in 1..Len(runs)
               /\ \/ /\ Len(runs[r].yielded) >= 1
                     /\ runs[r].yielded[1] = createSessionStartEvent(id)
                     /\ ~Falsy(runs[r].task.prompt) =>
                           /\ Len(runs[r].yielded) >= 2
                           /\ runs[r].yielded[2].type = "user_message"
                           /\ runs[r].yielded[2].content = runs[r].task.prompt
                  \/ runs[r].pc = "returned"

\* the processes started for the session that have not had kill() called
LiveProcesses == {h \in DOMAIN procs : ~procs[h].killed}

\* C11: when the asynchronous start of the process of the latest run
\* completes after abort() (matching or without task id) or dispose() was
\* called (the current task id is null again), no live process is left: the
\* process has been killed and the session's process handle is null.
C11_NoProcessSurvivesAbort ==
    [][\A r \in 1..MaxRuns :
          (IFlowStarted(r) /\ r = Len(runs) /\ currentTaskId = Null)
              => (process' = 0 /\ LiveProcesses' = {})]_vars

\* C12: at most one started and not terminated process belongs to the
\* session at any time, and a run() issued while the status is 'running'
\* replaces neither the current task id nor the process handle.
C12_OneTaskInFlight ==
    [][/\ Cardinality(LiveProcesses') <= 1
       /\ \A task \in Tasks :
             (IFlowRun(task) /\ status = "running")
                 => (currentTaskId' = currentTaskId /\ process' = process)
      ]_vars

\* the events run yields before it calls executeTask
Prelude(task) ==
    <<[type |-> "session_start", sessionId |-> id]>> \o
    (IF Falsy(task.prompt) THEN <<>>
     ELSE <<[type |-> "user_message", content |-> task.prompt,
             files |-> Undef]>>)

IsPrefix(a, b) == Len(a) <= Len(b) /\ a = SubSeq(b, 1, Len(a))

\* the events gen has yielded after the prelude
Forwarded ==
    SubSeq(gen.yielded, Len(Prelude(gen.task)) + 1, Len(gen.yielded))

QueueEnded == {"done", "returned", "dropped"}

\* C14: the events yielded by the iterable of createEventIterable are
\* always a prefix of the events emitted since it was called (FIFO, each
\* once), and every event emitted up to and including the first one that
\* satisfies the completion condition is eventually yielded to a consumer
\* that keeps pulling (not one that returned, was never started, or whose
\* session was disposed).
C14_FifoAndLossless ==
    /\ [](IsPrefix(consumer.yielded, emitted))
    /\ []<>(\/ IsPrefix(UpToTerminal(emitted), consumer.yielded)
            \/ consumer.pc \in {"returned", "dropped"}
            \/ isDisposed)

\* C14 witness: three events, the second one terminal, were emitted while
\* the consumer was iterating, and the first two have been yielded
C14_Witness ==
    /\ Len(emitted) = 3
    /\ ~IsTerminal(emitted[1])
    /\ IsTerminal(emitted[2])
    /\ ~isDisposed
    /\ consumer.pc = "atYield"
    /\ consumer.yielded = SubSeq(emitted, 1, 2)

\* C15: a push made while the consumer is suspended on the empty queue
\* resolves the pending waiter, whether the pushed event is terminal or not.
C15_PushWakesWaiter ==
    [][\A event \in EmitEvents :
          (Emit(event) /\ consumer.pc = "waiting" /\ "queue" \in listeners)
              => consumer'.pc = "woken"]_vars

\* C16: when the iteration of the iterable executeTask created has ended
\* (terminal event, thrown error or early return), its listener is no
\* longer attached to the emitter of the session.
C16_ListenerRemoved ==
    consumer.pc \in QueueEnded \cup {"none"} => "queue" \notin listeners

\* C18: the status of a tool-call entry only changes from running to
\* completed or from running to failed, an entry in completed or failed
\* never changes status again, and an entry is created in status running.
C18_ToolCallsMonotone ==
    [][\A toolId \in ToolIds :
          /\ (toolId \in DOMAIN toolCalls /\ toolId \in DOMAIN toolCalls'
                 /\ toolCalls'[toolId].status # toolCalls[toolId].status)
                => /\ toolCalls[toolId].status = "running"
                   /\ toolCalls'[toolId].status \in {"completed", "failed"}
          /\ (toolId \notin DOMAIN toolCalls /\ toolId \in DOMAIN toolCalls')
                => toolCalls'[toolId].status = "running"
      ]_vars

\* a value of the event is one of the generated tool-call ids
CarriesToolId(event) ==
    \E f \in DOMAIN event \ {"isPartial", "success"} : event[f] \in ToolIds

\* C19: two fresh IFlowEventParser instances with the same session id, fed
\* the same raw events, have returned the same canonical events, whatever
\* tool-call ids each generated, and no returned event carries such an id.
C19_ParserDeterministic ==
    /\ parsed = twin.parsed
    /\ \A i \in 1..Len(parsed) : ~CarriesToolId(parsed[i])

\* C19 witness: three raw events were fed, one of them started a tool call
\* for which the two instances generated different ids
C19_Witness ==
    /\ Len(fed) = MaxFed
    /\ DOMAIN toolCalls # {}
    /\ DOMAIN toolCalls \cap DOMAIN twin.toolCalls = {}
    /\ \E i \in 1..Len(parsed) : parsed[i].type = "tool_call_start"
    /\ parsed = twin.parsed

\* the raw events that start a tool call
IsToolStart(event) == event.type \in {"tool", "tool_call"} /\ ToolStarts(event)

\* C20: parse of a tool or tool_call event with no status or status 'start'
\* returns exactly progress then tool_call_start(name, args), and adds
\* exactly one entry, with a fresh id and status running, to the
\* ToolCallManager, every existing entry being left unchanged.
C20_ToolStartRegisters ==
    [][(Len(fed') = Len(fed) + 1 /\ IsToolStart(Last(fed'))) =>
          LET event    == Last(fed')
              returned == SubSeq(parsed', Len(parsed) + 1, Len(parsed'))
              added    == DOMAIN toolCalls' \ DOMAIN toolCalls
          IN  /\ IsPrefix(parsed, parsed')
              /\ Len(returned) = 2
              /\ returned[1].type = "progress"
              /\ returned[2] = createToolCallStartEvent(
                     Or(Get(event, "name"), "unknown"),
                     Or(Or(Get(event, "args"), Get(event, "input")), "{}"))
              /\ Cardinality(added) = 1
              /\ \A t \in added : /\ toolCalls'[t].status = "running"
                                  /\ toolCalls'[t].id = t
              /\ \A t \in DOMAIN toolCalls :
                    t \in DOMAIN toolCalls' /\ toolCalls'[t] = toolCalls[t]
      ]_vars

\* C20 witness: a second tool start was parsed, two entries are running
C20_Witness ==
    /\ Cardinality(DOMAIN toolCalls) = 2
    /\ \A t \in DOMAIN toolCalls : toolCalls[t].status = "running"
    /\ Len(parsed) = 4
    /\ parsed[3].type = "progress"
    /\ parsed[4].type = "tool_call_start"

\* the state dispose() leaves behind
Disposed ==
    /\ isDisposed
    /\ status = "disposed"
    /\ listeners = {}
    /\ impl = "iflow" =>
          (toolCalls = <<>> /\ currentTaskId = Null /\ process = 0)

\* C17: the first dispose() kills the process, clears the parser's tool
\* calls, detaches every listener, nulls the current task id and runs the
\* disposeResources hook; a later dispose() changes nothing, so no process
\* is killed again and the hook never runs twice.
C17_DisposeIdempotent ==
    [][/\ hookCalls' <= 1
       /\ (IFlowDispose \/ BaseDispose) =>
             IF isDisposed
             THEN UNCHANGED vars
             ELSE /\ Disposed'
                  /\ process # 0 => procs'[process].killed
                  /\ impl = "base" => hookCalls' = 1
      ]_vars

\* C17 witness: a disposed IFlowSession whose process was killed, with no
\* tool call, listener or task id left
C17_Witness ==
    /\ impl = "iflow"
    /\ Disposed
    /\ \E h \in DOMAIN procs : procs[h].killed

\* the raw events of s whose type is a known one
RECURSIVE KnownOnly(_)
KnownOnly(s) ==
    IF s = <<>> THEN <<>>
    ELSE IF Head(s).type \in KnownTypes
    THEN <<Head(s)>> \o KnownOnly(Tail(s))
    ELSE KnownOnly(Tail(s))

\* a parse call was made in this step
Parsing == Len(fed') = Len(fed) + 1

\* the events the parse call of this step returned
Returned == SubSeq(parsed', Len(parsed) + 1, Len(parsed'))

\* C21: parse of a raw event of unknown type returns no event and leaves
\* the tool calls unchanged, and the events returned for a stream are those
\* returned for the stream without its lines of unknown type.
C21_UnknownTypeIgnored ==
    [][Parsing =>
          /\ Last(fed').type \notin KnownTypes
                => (parsed' = parsed /\ toolCalls' = toolCalls)
          /\ parsed' = convertEventsToAIEvents(KnownOnly(fed'))
      ]_vars

\* C21 witness: a line of unknown type was parsed between a tool start and
\* another known line
C21_Witness ==
    /\ Len(fed) = 3
    /\ IsToolStart(fed[1])
    /\ fed[2].type \notin KnownTypes
    /\ fed[3].type = "end"
    /\ Len(parsed) = 3
    /\ Cardinality(DOMAIN toolCalls) = 1

\* the partial assistant message with the given content
PartialMessage(content) ==
    [type |-> "assistant_message", content |-> content, isPartial |-> TRUE]

\* n token lines followed by an end line
TokensThenEnd(s) ==
    /\ Len(s) >= 1
    /\ Last(s).type = "end"
    /\ \A i \in 1..(Len(s) - 1) : s[i].type \in {"token", "delta"}

\* n partial assistant messages followed by one session_end
PartialsThenEnd(s, n) ==
    /\ Len(s) = n + 1
    /\ \A i \in 1..n : s[i].type = "assistant_message" /\ s[i].isPartial
    /\ s[n + 1].type = "session_end"

\* C22 as claimed: a token or delta event yields exactly one partial
\* assistant_message whose content is the text field if it is defined,
\* otherwise the delta field, otherwise the empty string; n token lines
\* followed by an end line yield n partial messages and one session_end.
C22_TokenContentIfDefined ==
    [][Parsing =>
          /\ Last(fed').type \in {"token", "delta"} =>
                LET event == Last(fed')
                IN  Returned = <<PartialMessage(
                        IF Get(event, "text") # Undef THEN event.text
                        ELSE IF Get(event, "delta") # Undef THEN event.delta
                        ELSE "")>>
          /\ TokensThenEnd(fed') => PartialsThenEnd(parsed', Len(fed') - 1)
      ]_vars

\* C22 amended: the content is the text field if it is not empty (truthy),
\* otherwise the delta field if it is not empty, otherwise the empty
\* string; n token lines followed by an end line yield n partial messages
\* and one session_end.
C22_TokenContentIfNotEmpty ==
    [][Parsing =>
          /\ Last(fed').type \in {"token", "delta"} =>
                LET event == Last(fed')
                IN  Returned = <<PartialMessage(
                        IF ~Falsy(Get(event, "text")) THEN event.text
                        ELSE IF ~Falsy(Get(event, "delta")) THEN event.delta
                        ELSE "")>>
          /\ TokensThenEnd(fed') => PartialsThenEnd(parsed', Len(fed') - 1)
      ]_vars

\* C22 witness: a token with an empty text and a delta, one without either
\* field, then an end line
C22_Witness ==
    /\ Len(fed) = 3
    /\ fed[1] = [type |-> "token", text |-> "", delta |-> "x"]
    /\ fed[2] = [type |-> "token"]
    /\ fed[3].type = "end"
    /\ parsed[1] = PartialMessage("x")
    /\ parsed[2] = PartialMessage("")
    /\ PartialsThenEnd(parsed, 2)

\* C23: the args of tool_call_start and of the ToolCallManager entry of a
\* tool start are the args field when it is not undefined, otherwise the
\* input field when it is not undefined, otherwise an empty map.
C23_FirstDefinedArgsWin ==
    [][(Parsing /\ IsToolStart(Last(fed'))) =>
          LET event    == Last(fed')
              expected == IF Get(event, "args") # Undef THEN event.args
                          ELSE IF Get(event, "input") # Undef THEN event.input
                          ELSE "{}"
          IN  /\ Len(Returned) = 2
              /\ Returned[2].type = "tool_call_start"
              /\ Returned[2].args = expected
              /\ \A t \in DOMAIN toolCalls' \ DOMAIN toolCalls :
                    toolCalls'[t].args = expected
      ]_vars

\* the calls made on the parser since its last reset()
RECURSIVE SinceReset(_)
SinceReset(s) ==
    IF s = <<>> THEN <<>>
    ELSE IF Last(s) = ResetMark THEN <<>>
    ELSE Append(SinceReset(SubSeq(s, 1, Len(s) - 1)), Last(s))

\* C24: after parser.reset() and after session.dispose() the tool-call
\* list of the parser is empty, and the tool calls parsed after a reset are
\* tracked again from empty: a session that was not disposed tracks exactly
\* the tool starts parsed since the last reset.
C24_ResetClearsToolCalls ==
    [][/\ (Parsing /\ Last(fed') = ResetMark) => toolCalls' = <<>>
       /\ (~isDisposed /\ isDisposed') => toolCalls' = <<>>
       /\ ~isDisposed' =>
             Cardinality(DOMAIN toolCalls') =
                 Len(SelectSeq(SinceReset(fed'), IsToolStart))
      ]_vars

\* C24 witness: a tool start, a reset, a tool start tracked from empty, and
\* a dispose that emptied the list again
C24_Witness ==
    /\ Len(fed) = 3
    /\ IsToolStart(fed[1])
    /\ fed[2] = ResetMark
    /\ IsToolStart(fed[3])
    /\ isDisposed
    /\ toolCalls = <<>>

\* C25: the tool calls of a session's parser change only in a call on
\* that parser or a dispose of that session, and such a step leaves the
\* tool calls of the other session's parser unchanged.
C25_ToolCallsPerSession ==
    [][/\ (fed' = fed /\ isDisposed' = isDisposed) => toolCalls' = toolCalls
       /\ (fed' # fed \/ isDisposed' # isDisposed)
             => twin'.toolCalls = twin.toolCalls
      ]_vars

\* C25 witness: the other session was fed and reset while this session
\* tracks a tool call, and this session was reset while the other tracks one
C25_Witness ==
    /\ Len(fed) = 3
    /\ IsToolStart(fed[1])
    /\ fed[2] = ResetMark
    /\ IsToolStart(fed[3])
    /\ Cardinality(DOMAIN toolCalls) = 1
    /\ Cardinality(DOMAIN twin.toolCalls) = 1
    /\ Len(twin.parsed) = 4

\* C26: no two sessions have the same id, whether created by
\* IFlowEngine.createSession or constructed as subclasses of BaseSession,
\* and the id of a session never changes.
C26_SessionIdsUnique ==
    [][/\ \A i, j \in DOMAIN sessions' :
             i # j => sessions'[i].id # sessions'[j].id
       /\ \A i \in DOMAIN sessions : sessions'[i].id = sessions[i].id
      ]_vars

\* a call of initialize or cleanup was made in this step
EngineCall(ev) == engine'.ops = engine.ops + 1 /\ engine'.last.ev = ev

\* the probe of a pending initialize settled in this step
EngineReturn == engine'.pending # engine.pending /\ engine'.ops = engine.ops

\* C27: an initialize() called after an initialize() returned true, with no
\* cleanup() since, returns true without a probe; any other initialize()
\* probes; an initialize() whose probe reports unavailable or throws
\* returns false and leaves isInitialized as it was, and one whose probe
\* reports available returns true; cleanup() leaves the engine
\* uninitialized and changes nothing else of an uninitialized engine.
C27_InitializeIdempotent ==
    [][/\ EngineCall("initialize") =>
             IF engine.returnedTrue
             THEN /\ ~engine'.last.probes
                  /\ engine'.last.result = "true"
                  /\ engine'.pending = engine.pending
                  /\ engine'.isInitialized
             ELSE /\ engine'.last.probes
                  /\ engine'.pending # engine.pending
                  /\ engine'.isInitialized = engine.isInitialized
       /\ EngineReturn =>
             /\ engine'.last.ev = "return"
             /\ engine'.last.probe \in {"unavailable", "throws"} =>
                   /\ engine'.last.result = "false"
                   /\ engine'.isInitialized = engine.isInitialized
             /\ engine'.last.probe = "available" =>
                   /\ engine'.last.result = "true"
                   /\ engine'.isInitialized
       /\ EngineCall("cleanup") =>
             /\ ~engine'.isInitialized
             /\ engine'.pending = engine.pending
             /\ engine'.config = engine.config
      ]_vars

\* C27 witness: an initialize() that probed after a cleanup(), following
\* an initialize() that returned true at once
C27_Witness ==
    /\ engine.ops = 4
    /\ engine.atOnce = 1
    /\ engine.last = Did("initialize", TRUE, "none", "none")
    /\ ~engine.returnedTrue
    /\ ~engine.isInitialized
    /\ engine.pending = {4}

\* C28: capabilities keeps the value it was constructed with; a session
\* is created with the parameters of the configuration current at its
\* creation, and no step changes the configuration of a session created
\* before.
C28_CapabilitiesFixed ==
    [][/\ engine'.capabilities = capabilities
       /\ \A i \in DOMAIN sessions : sessions'[i] = sessions[i]
       /\ Len(sessions') = Len(sessions) + 1 =>
             /\ Last(sessions').config.model =
                    Get(engine.config, "defaultModel")
             /\ Last(sessions').config.apiKey = Get(engine.config, "apiKey")
      ]_vars

\* C28 witness: a session created before an updateConfig and one created
\* after it, each with the model of its time, on an engine that was
\* initialized and cleaned up
C28_Witness ==
    /\ Len(sessions) = 2
    /\ sessions[1].config.model = "m1"
    /\ sessions[2].config.model = "m2"
    /\ Get(engine.config, "defaultModel") = "m2"
    /\ engine.last.ev = "cleanup"
    /\ engine.ops >= 2

\* the engines that hold default status
Defaults(reg) == {e \in DOMAIN reg.entries : reg.entries[e].isDefault}

\* a registerEngine call was made in this step
Registering == registry'.regs = registry.regs + 1

\* C29: at most one engine holds default status; after registering an
\* engine as default getDefault() returns it, whatever the default was
\* before; registering an engine without asDefault, and every registration
\* made by registerEngineLazy, leaves an existing default unchanged.
C29_DefaultUnique ==
    [][/\ Cardinality(Defaults(registry')) <= 1
       /\ (Registering /\ registry'.last.asDefault /\ ~registry'.last.lazy)
             => getDefault(registry') = registry'.last.id
       /\ (Registering /\ getDefault(registry) # "none"
              /\ (~registry'.last.asDefault \/ registry'.last.lazy))
             => getDefault(registry') = getDefault(registry)
      ]_vars

\* C29 witness: iflow was registered by registerEngineLazy while
\* claude-code was the default, after claude-code superseded iflow
C29_Witness ==
    /\ registry.regs = 3
    /\ registry.last.lazy
    /\ registry.last.id = "iflow"
    /\ registry.last.before = "claude-code"
    /\ getDefault(registry) = "claude-code"
    /\ DOMAIN registry.entries = EngineIds

\* C30: an initializeAll() invocation calls initialize() at most once on
\* each engine registered when it started and exactly once when it is
\* done, whatever the outcomes, and every invocation completes.
C30_InitializeAllCallsEach ==
    /\ [](\A b \in DOMAIN registry.batches :
             \A e \in registry.batches[b].engines :
                /\ registry.batches[b].called[e] <= 1
                /\ registry.batches[b].done
                      => registry.batches[b].called[e] = 1)
    /\ \A b \in 1..MaxBoots :
          (Len(registry.batches) >= b)
              ~> (Len(registry.batches) >= b /\ registry.batches[b].done)

\* C30 witness: an invocation on two engines is done, the initialize() of
\* claude-code having failed
C30_Witness ==
    \E b \in DOMAIN registry.batches :
        /\ registry.batches[b].done
        /\ registry.batches[b].engines = EngineIds
        /\ "claude-code" \in registry.batches[b].failed
        /\ registry.batches[b].called = [e \in EngineIds |-> 1]

\* a registerEngineLazy(engineId) call was made in this step
LazyCall ==
    /\ registry'.last.lazy
    /\ \/ registry'.regs = registry.regs + 1
       \/ registry'.last.skipped /\ registry'.last # registry.last

\* the registry without the description of its latest call
Registry(reg) == [entries |-> reg.entries, regs |-> reg.regs,
                  lazyPending |-> reg.lazyPending, batches |-> reg.batches]

\* C31: registerEngineLazy(id) for a registered id changes nothing: same
\* instance, same default, no initialize call; for an unregistered id it
\* registers one instance and calls its initialize once, and no
\* registerEngineLazy call, however interleaved with the pending
\* initialize of an earlier one, replaces the instance registered under
\* an id.
C31_LazyRegistrationIdempotent ==
    [][LazyCall =>
         LET engineId == registry'.last.id
         IN  /\ has(registry, engineId) =>
                   /\ registry'.last.skipped
                   /\ Registry(registry') = Registry(registry)
             /\ ~has(registry, engineId) =>
                   /\ has(registry', engineId)
                   /\ registry'.lazyPending =
                         registry.lazyPending \cup {engineId}
             /\ \A e \in DOMAIN registry.entries :
                   registry'.entries[e] = registry.entries[e]
      ]_vars

\* C31 witness: a second registerEngineLazy(iflow) returned while the
\* initialize() of the first was pending, the instance registered by the
\* first being still the one in the registry
C31_Witness ==
    /\ registry.last = [id |-> "iflow", asDefault |-> FALSE, lazy |-> TRUE,
                        skipped |-> TRUE, before |-> "claude-code"]
    /\ "iflow" \in registry.lazyPending
    /\ registry.regs = 2
    /\ registry.entries["iflow"].instance = 2

(***************************************************************************)
(* Properties of the task templates.                                       *)
(***************************************************************************)
\* the template and the context the calls are applied to
Template == The(getTemplate(rendering.templateId))
Context == rendering.context

\* the variables a template declares, in declaration order
Declared(template) ==
    IF template.variables = None THEN <<>> ELSE The(template.variables)

Names(variables) == [i \in DOMAIN variables |-> variables[i].name]

Keys(context) ==
    { context.variables[i].key : i \in DOMAIN context.variables }

\* the variable has no entry in context.variables
NotPresent(context, variable) == variable.name \notin Keys(context)

\* the variable has no entry in context.variables, or an empty value
AbsentOrEmpty(context, variable) ==
    \A i \in DOMAIN context.variables :
        context.variables[i].key = variable.name
            => context.variables[i].value = <<>>

\* the files requirement of the template is met by the context
FilesMet(template, context) ==
    template.requireFiles
        => context.files # None /\ The(context.files) # <<>>

\* render(context) has been called on a template whose files requirement
\* the context meets
RenderedWithFiles ==
    /\ rendering.render.called
    /\ FilesMet(Template, Context)

\* C32 as stated: render fails with a TemplateRenderError if and only if a
\* variable declared required is not present in context.variables (the
\* files requirement being met), and missingVariables lists every required
\* variable that is not present, in declaration order
C32_FailsIffNotPresent ==
    RenderedWithFiles =>
        LET missing == Names(SelectSeq(Declared(Template),
                LAMBDA v : v.required /\ NotPresent(Context, v)))
        IN  /\ rendering.render.error # None <=> missing # <<>>
            /\ missing # <<>> =>
                /\ The(rendering.render.error).name = "TemplateRenderError"
                /\ The(rendering.render.error).missingVariables = Some(missing)

\* C32 amended: render fails with a TemplateRenderError if and only if a
\* variable declared required is absent from context.variables or has an
\* empty value there (the files requirement being met), and
\* missingVariables lists every such variable, in declaration order
C32_FailsIffAbsentOrEmpty ==
    RenderedWithFiles =>
        LET missing == Names(SelectSeq(Declared(Template),
                LAMBDA v : v.required /\ AbsentOrEmpty(Context, v)))
        IN  /\ rendering.render.error # None <=> missing # <<>>
            /\ missing # <<>> =>
                /\ The(rendering.render.error).name = "TemplateRenderError"
                /\ The(rendering.render.error).missingVariables = Some(missing)

\* C32 witness: render failed on a template with two required variables,
\* one absent from the context and one given with an empty value, and both
\* are listed in declaration order
C32_Witness ==
    /\ RenderedWithFiles
    /\ rendering.templateId = "review"
    /\ Context.variables = <<[key |-> "goal", value |-> <<>>]>>
    /\ rendering.render.error # None
    /\ The(rendering.render.error).missingVariables
           = Some(<<"language", "goal">>)

\* a required variable of the template is missing from the context: it has
\* no entry or an empty value
RequiredMissing(template, context) ==
    \E i \in DOMAIN Declared(template) :
        /\ Declared(template)[i].required
        /\ AbsentOrEmpty(context, Declared(template)[i])

\* the call threw a TemplateRenderError and returned nothing
Raised(result) ==
    /\ result.error # None
    /\ The(result.error).name = "TemplateRenderError"
    /\ result.value = None

\* the call returned a task of the kind of the template, with the files
\* and the extra of the context
Created(result, template, context) ==
    /\ result.error = None
    /\ result.value # None
    /\ The(result.value).kind = template.kind
    /\ The(result.value).input.files = context.files
    /\ The(result.value).input.extra = context.extra

\* what the claim asks of a render call on a registered template
ErrorsFirst(result, template, context) ==
    IF RequiredMissing(template, context) \/ ~FilesMet(template, context)
    THEN Raised(result)
    ELSE Created(result, template, context)

Provided(piece, variables) ==
    { variables[i].value :
          i \in { j \in DOMAIN variables : Matches(piece, variables[j].key) } }

\* the template with every placeholder of a context variable replaced by
\* the provided value and every other piece kept
RECURSIVE Substituted(_, _)
Substituted(template, variables) ==
    IF template = <<>> THEN <<>>
    ELSE (IF Provided(Head(template), variables) # None
          THEN The(Provided(Head(template), variables))
          ELSE <<Head(template)>>)
             \o Substituted(Tail(template), variables)

\* the same variables in the opposite order
Reversed(variables) ==
    [i \in DOMAIN variables |-> variables[Len(variables) + 1 - i]]

\* C34: the prompt of a rendered task is promptTemplate with every
\* {{name}} (optional whitespace around the name) of a name in
\* context.variables replaced by the provided value and all other text,
\* unresolved placeholders included, kept verbatim; the result does not
\* depend on the order of the variables in the context
C34_PromptIsSubstitution ==
    rendering.render.called /\ rendering.render.value # None =>
        /\ The(rendering.render.value).input.prompt
               = Substituted(Template.promptTemplate, Context.variables)
        /\ The(rendering.render.value).input.prompt
               = renderTemplate(Template.promptTemplate,
                                Reversed(Context.variables))

TimerWakeUp ==
    /\ consumer.pc = "woken"
    /\ ~state.isComplete
    /\ consumer'.pc # "woken"

\* an event that satisfies the completion condition was pushed
CompletionPushed ==
    /\ state.isComplete
    /\ \E i \in DOMAIN emitted : createDefaultCompletionChecker(emitted[i])

\* C35: the fallback timer of createEventIterable only re-checks
\* completion: resuming from a timer wake-up with no completion event
\* neither ends the sequence nor yields an event, and the sequence ends
\* only after a completion event was pushed to its listener
C35_TimerOnlyRechecks ==
    /\ [][TimerWakeUp =>
              /\ consumer'.yielded = consumer.yielded
              /\ consumer'.pc # "done"]_vars
    /\ [](consumer.pc = "done" => CompletionPushed)

\* C35, the termination part: once a completion event has been pushed and
\* the consumer has begun to iterate, the sequence ends with nothing left
\* in its queue or the consumer returns early
QueueDrains ==
    (CompletionPushed /\ consumer.pc \notin {"none", "created", "dropped"})
        ~> \/ consumer.pc = "done" /\ state.events = <<>>
           \/ consumer.pc = "returned"

\* a tool event that reports the end of a tool call with the given status
IsToolEnd(event, toolStatus) ==
    event.type \in {"tool", "tool_call"} /\ Get(event, "status") = toolStatus

\* fed[i] is the only start parsed for its tool and fed[j] is the first
\* tool event parsed after it that ends this tool
StartThenEnd(i, j) ==
    /\ i < j
    /\ IsToolStart(fed[i])
    /\ \A k \in DOMAIN fed :
           IsToolStart(fed[k]) /\ ToolName(fed[k]) = ToolName(fed[i]) => k = i
    /\ IsToolEnd(fed[j], "end") \/ IsToolEnd(fed[j], "error")
    /\ ToolName(fed[j]) = ToolName(fed[i])
    /\ \A k \in (i + 1)..(j - 1) :
           ~(/\ IsToolEnd(fed[k], "end") \/ IsToolEnd(fed[k], "error")
             /\ ToolName(fed[k]) = ToolName(fed[i]))

\* C36: after the parser parsed a tool start and then a tool event with
\* status 'end' (respectively 'error') for the same tool, the entry the
\* start registered has status completed (respectively failed):
\* getCurrentToolCalls() reports as running only tool calls that have not
\* ended
C36_ToolLifecycleTracked ==
    \A i, j \in DOMAIN fed :
        StartThenEnd(i, j) =>
            \A toolId \in DOMAIN toolCalls :
                toolCalls[toolId].name = ToolName(fed[i]) =>
                    toolCalls[toolId].status =
                        IF IsToolEnd(fed[j], "end")
                        THEN "completed" ELSE "failed"

\* executeTask has been invoked by the run: it returned a sequence or threw
ExecuteTaskInvoked(g) ==
    \/ g.inner # "none"
    \/ \E i \in DOMAIN g.yielded :
           g.yielded[i] = CaughtError("executeTask failed")

\* the steps of a run: the call, the first pull, the call of executeTask
RunCalled == runCalls' = runCalls + 1
FirstPull == gen.pc = "created" /\ gen'.pc \notin {"created", "returned"}
Invoking == ~ExecuteTaskInvoked(gen) /\ ExecuteTaskInvoked(gen')

\* C37: BaseSession.run is lazy.  The call run(task) leaves the status
\* unchanged and does not invoke executeTask; the first pull sets the
\* status to running, or rejects without invoking executeTask if the
\* session has been disposed in between; executeTask is invoked only once
\* session_start and, for a task with a prompt, user_message have been
\* consumed; a rejected run never invokes executeTask
C37_RunIsLazy ==
    [][/\ RunCalled =>
            /\ status' = status
            /\ gen'.yielded = <<>>
            /\ ~ExecuteTaskInvoked(gen')
       /\ FirstPull =>
            /\ ~ExecuteTaskInvoked(gen')
            /\ IF isDisposed
               THEN gen'.pc = "rejected" /\ status' = status
               ELSE status' = "running"
       /\ Invoking =>
            /\ gen.yielded = Prelude(gen.task)
            /\ gen.pc = (IF Falsy(gen.task.prompt) THEN "atStart" ELSE "atUser")
       /\ gen.pc = "rejected" => ~ExecuteTaskInvoked(gen')]_vars

\* C37 witness: run(task) was called, the session was disposed before the
\* first pull, and the first pull rejected without invoking executeTask
C37_Witness ==
    /\ impl = "base"
    /\ runCalls = 1
    /\ hookCalls = 1
    /\ gen.pc = "rejected"
    /\ gen.yielded = <<>>
    /\ ~ExecuteTaskInvoked(gen)
    /\ status = "disposed"

(***************************************************************************)
(* Properties of the context services.                                     *)
(***************************************************************************)
\* the budget of the call: maxTokens, or the limit of the controller
Budget ==
    IF selection.maxTokens = None THEN selection.controller.state.limit
    ELSE The(selection.maxTokens)

\* the sum of estimatedTokens over a list of entries
RECURSIVE TokensOf(_)
TokensOf(entries) ==
    IF entries = <<>> THEN 0
    ELSE Head(entries).estimatedTokens + TokensOf(Tail(entries))

\* the entry is the input entry, or the input file compressed to its
\* structure
AsIsOrCompressed(entry, input) ==
    \/ entry = input
    \/ /\ input.type = "file"
       /\ entry.type = "file_structure"
       /\ entry.id = input.id
       /\ entry.priority = input.priority
       /\ entry.content.path = input.content.path

\* every input entry is exactly once in selected (as is or compressed) or
\* in dropped
Partitioned ==
    /\ Len(selection.selected) + Len(selection.dropped)
           = Len(selection.entries)
    /\ \A i \in DOMAIN selection.entries :
           Cardinality({ k \in DOMAIN selection.selected :
               AsIsOrCompressed(selection.selected[k], selection.entries[i]) })
           + Cardinality({ k \in DOMAIN selection.dropped :
               selection.dropped[k] = selection.entries[i] }) = 1

\* C39 as stated: for any entries with non-negative estimatedTokens and
\* any budget (maxTokens, or the limit of the controller) the selected
\* entries sum to at most the budget, and every input entry is exactly once
\* in selected or in dropped
C39_WithinAnyBudget ==
    selection.called =>
        /\ TokensOf(selection.selected) <= Budget
        /\ Partitioned

\* C39 amended: the same for any budget that is not negative
C39_WithinBudget ==
    selection.called =>
        /\ Budget >= 0 => TokensOf(selection.selected) <= Budget
        /\ Partitioned

\* C39 witness: a call with a budget of 500 tokens selected a file
\* compressed to its structure and dropped an entry that did not fit
C39_Witness ==
    /\ selection.called
    /\ Budget = 500
    /\ Len(selection.entries) = 2
    /\ \E k \in DOMAIN selection.selected :
           /\ selection.selected[k].type = "file_structure"
           /\ selection.selected[k] \notin
                  { selection.entries[i] : i \in DOMAIN selection.entries }
    /\ selection.dropped # <<>>
    /\ TokensOf(selection.selected) > 0

\* the file of the entry is one the query mentions
Mentioned(entry, query) ==
    /\ entry.type \in {"file", "file_structure"}
    /\ query.mentionedFiles # None
    /\ \E i \in DOMAIN The(query.mentionedFiles) :
           The(query.mentionedFiles)[i] = entry.content.path

\* C40: adjustPriorities returns, for every entry of type file or
\* file_structure whose path is in query.mentionedFiles, an entry of
\* priority 5 whatever other built-in rules match; every returned priority
\* is within 0..5, and the returned entries are the input entries with
\* nothing but the priority changed
C40_MentionedFilesHighest ==
    adjustment.called =>
        /\ Len(adjustment.returned) = Len(adjustment.entries)
        /\ \A i \in DOMAIN adjustment.entries :
               /\ Mentioned(adjustment.entries[i], adjustment.query) =>
                      adjustment.returned[i].priority = 5
               /\ adjustment.returned[i].priority \in 0..5
               /\ [adjustment.returned[i] EXCEPT !.priority =
                       adjustment.entries[i].priority]
                      = adjustment.entries[i]

====
